---- MODULE Spec2Model ----
(***************************************************************************)
(* Model of the evidence sanitizer of src/postcall_trace.py:               *)
(* sanitizeExtractionTrace and its helpers.  One call is a small state     *)
(* machine: the call entry (turn and claim lookup), one step per iteration *)
(* of the loop over the field claims, and the return of the two results.   *)
(*                                                                         *)
(* Python values are records [t, n, s]: t is the type tag, n the number of *)
(* an int/bool/float value, s the characters of a str value.  A string is  *)
(* a sequence of one-character strings.  A float [t |-> "float", n |-> k]  *)
(* stands for the non-integral number k + 0.5.                             *)
(***************************************************************************)
EXTENDS Integers, Sequences, FiniteSets, TLC

----------------------------------------------------------------------------
\* Bounds of the model
MaxTurns == 2
MaxFields == 2
MaxOffset == 3
MaxRun == 2
NumCallers == 2
MaxTail == 5

----------------------------------------------------------------------------
\* Python values

Absent == [t |-> "absent", n |-> 0, s |-> <<>>]
None == [t |-> "none", n |-> 0, s |-> <<>>]
PyInt(k) == [t |-> "int", n |-> k, s |-> <<>>]
PyBool(b) == [t |-> "bool", n |-> IF b THEN 1 ELSE 0, s |-> <<>>]
PyFloat(k) == [t |-> "float", n |-> k, s |-> <<>>]
PyStr(chars) == [t |-> "str", n |-> 0, s |-> chars]

\* dict.get(key): a missing key reads as None
DictGet(v) == IF v.t = "absent" THEN None ELSE v

\* isinstance(v, int): bool is a subclass of int
IsInstanceInt(v) == v.t \in {"int", "bool"}

\* isinstance(v, str)
IsInstanceStr(v) == v.t = "str"

\* bool(v)
Truthy(v) ==
    CASE v.t = "str" -> Len(v.s) > 0
      [] v.t \in {"int", "bool"} -> v.n # 0
      [] v.t = "float" -> TRUE
      [] OTHER -> FALSE

\* a or b
PyOr(a, b) == IF Truthy(a) THEN a ELSE b

\* min(a, b) and max(a, b) return the first argument on a tie
PyMin(a, b) == IF b.n < a.n THEN b ELSE a
PyMax(a, b) == IF b.n > a.n THEN b ELSE a

Digit(d) ==
    CASE d = 0 -> "0" [] d = 1 -> "1" [] d = 2 -> "2" [] d = 3 -> "3"
      [] d = 4 -> "4" [] d = 5 -> "5" [] d = 6 -> "6" [] d = 7 -> "7"
      [] d = 8 -> "8" [] d = 9 -> "9"

RECURSIVE NatStr(_)
NatStr(k) == IF k < 10 THEN <<Digit(k)>> ELSE NatStr(k \div 10) \o <<Digit(k % 10)>>

IntStr(k) == IF k < 0 THEN <<"-">> \o NatStr(0 - k) ELSE NatStr(k)

\* str(v)
ToStr(v) ==
    CASE v.t = "str" -> v.s
      [] v.t = "int" -> IntStr(v.n)
      [] v.t = "bool" -> IF v.n = 1 THEN <<"T", "r", "u", "e">>
                         ELSE <<"F", "a", "l", "s", "e">>
      [] v.t = "float" -> IntStr(v.n) \o <<".", "5">>
      [] OTHER -> <<"N", "o", "n", "e">>

\* sub in text, for two strings: the empty string occurs in every text
Contains(sub, text) ==
    \E i \in 0..(Len(text) - Len(sub)) : SubSeq(text, i + 1, i + Len(sub)) = sub

----------------------------------------------------------------------------
\* _redact_preview

PREVIEW_LIMIT == 120

IsSpace(c) == c \in {" ", "\t", "\n"}

\* " ".join(chars.split()): whitespace runs collapse to one space, leading and
\* trailing whitespace disappears
\* (the characters of the words stay; of the whitespace, the first character
\* of a run between two words stays, as the joining space)
Squish(chars) ==
    LET n == Len(chars)
        InWord(j) == ~IsSpace(chars[j])
        Stays(j) == InWord(j) \/ (j > 1 /\ InWord(j - 1) /\ \E m \in (j + 1)..n : InWord(m))
        kept == SelectSeq([j \in 1..n |-> j], Stays)
    IN [m \in 1..Len(kept) |-> IF InWord(kept[m]) THEN chars[kept[m]] ELSE " "]

_redact_preview_cutAtLimit(text) ==
    IF ~Truthy(text) THEN <<>>
    ELSE LET squished == Squish(ToStr(text))
         IN IF Len(squished) <= PREVIEW_LIMIT THEN squished
            ELSE SubSeq(squished, 1, PREVIEW_LIMIT) \o <<".", ".", ".">>

_redact_preview(text) ==
    IF ~Truthy(text) THEN <<>>
    ELSE LET squished == Squish(ToStr(text))
         IN IF Len(squished) <= PREVIEW_LIMIT THEN squished
            ELSE SubSeq(squished, 1, PREVIEW_LIMIT - 3) \o <<".", ".", ".">>

----------------------------------------------------------------------------
\* Turn lookup

\* _extract_turn_text over a turn [t, s, text, content, turnText, message]:
\* t = "str" is a plain string with characters s, t = "dict" a record with
\* the four optional keys, anything else is an unrecognized shape
_extract_turn_text_noTextKey(turn) ==
    IF turn.t = "str" THEN turn.s
    ELSE IF turn.t = "dict"
         THEN IF IsInstanceStr(DictGet(turn.content)) THEN turn.content.s
              ELSE IF IsInstanceStr(DictGet(turn.turnText)) THEN turn.turnText.s
              ELSE IF IsInstanceStr(DictGet(turn.message)) THEN turn.message.s
              ELSE <<>>
         ELSE <<>>

_extract_turn_text_firstTruthy(turn) ==
    IF turn.t = "str" THEN turn.s
    ELSE IF turn.t = "dict"
         THEN IF Truthy(DictGet(turn.text)) THEN ToStr(turn.text)
              ELSE IF Truthy(DictGet(turn.content)) THEN ToStr(turn.content)
              ELSE IF Truthy(DictGet(turn.turnText)) THEN ToStr(turn.turnText)
              ELSE IF Truthy(DictGet(turn.message)) THEN ToStr(turn.message)
              ELSE <<>>
         ELSE <<>>

_extract_turn_text(turn) ==
    IF turn.t = "str" THEN turn.s
    ELSE IF turn.t = "dict"
         THEN IF IsInstanceStr(DictGet(turn.text)) THEN turn.text.s
              ELSE IF IsInstanceStr(DictGet(turn.content)) THEN turn.content.s
              ELSE IF IsInstanceStr(DictGet(turn.turnText)) THEN turn.turnText.s
              ELSE IF IsInstanceStr(DictGet(turn.message)) THEN turn.message.s
              ELSE <<>>
         ELSE <<>>

ExtractAll(list) == [k \in 1..Len(list) |-> _extract_turn_text(list[k])]

\* _extract_turns over a trace whose turn keys hold [t, items]: t = "list"
\* is a list of turns, t = "absent" a missing key
_extract_turns_skipsEmpty(trace) ==
    IF trace.turns.items # <<>> THEN ExtractAll(trace.turns.items)
    ELSE IF trace.conversation.items # <<>> THEN ExtractAll(trace.conversation.items)
    ELSE IF trace.conversationTurns.items # <<>>
         THEN ExtractAll(trace.conversationTurns.items)
    ELSE IF trace.turnTexts.items # <<>> THEN ExtractAll(trace.turnTexts.items)
    ELSE <<>>

_extract_turns(trace) ==
    IF trace.turns.t = "list" THEN ExtractAll(trace.turns.items)
    ELSE IF trace.conversation.t = "list" THEN ExtractAll(trace.conversation.items)
    ELSE IF trace.conversationTurns.t = "list" THEN ExtractAll(trace.conversationTurns.items)
    ELSE IF trace.turnTexts.t = "list" THEN ExtractAll(trace.turnTexts.items)
    ELSE <<>>

\* extraction_trace.get("perField") or extraction_trace.get("fields") or []
\* (an empty list is falsy)
PerFieldRaw(trace) ==
    IF trace.perField.t = "list" /\ trace.perField.items # <<>> THEN trace.perField.items
    ELSE IF trace.fields.t = "list" /\ trace.fields.items # <<>> THEN trace.fields.items
    ELSE <<>>

----------------------------------------------------------------------------
\* One iteration of the loop over the field claims (lines 144-206).  A field
\* claim is a record of Python values with the keys field, name, path,
\* turnIndex, requestedSnippet, snippet, evidence, value, startChar, endChar,
\* and t = "dict"; an item of the claim list that is not a mapping has another t.

\* dict(field) and field.get raise for an item that is not a mapping
ClaimRaises(field) == field.t # "dict"

\* trace.get raises AttributeError for an argument that is not a mapping
TraceRaises(trace) == trace.t # "dict"

\* isinstance(turn_index, int) and 0 <= turn_index < len(turns)
TurnIndexValid_oneBased(turn_index, nTurns) ==
    IsInstanceInt(turn_index) /\ 0 < turn_index.n /\ turn_index.n < nTurns

TurnIndexValid(turn_index, nTurns) ==
    IsInstanceInt(turn_index) /\ 0 <= turn_index.n /\ turn_index.n < nTurns

\* turn_text: the text of the claimed turn, or None
TurnTextOf(field, turnList) ==
    LET turn_index == DictGet(field.turnIndex)
    IN IF TurnIndexValid(turn_index, Len(turnList))
       THEN PyStr(turnList[turn_index.n + 1])
       ELSE None

\* field.get("requestedSnippet") or field.get("snippet") or field.get("evidence")
RequestedSnippet(field) ==
    PyOr(PyOr(DictGet(field.requestedSnippet), DictGet(field.snippet)),
         DictGet(field.evidence))

\* field.get("field") or field.get("name") or field.get("path") or ""
FieldName(field) ==
    PyOr(PyOr(PyOr(DictGet(field.field), DictGet(field.name)), DictGet(field.path)),
         PyStr(<<>>))

\* the guard of the offset repair
ClampApplies_anyTurn(turn_text, start_char, end_char) ==
    IsInstanceInt(start_char) \/ IsInstanceInt(end_char)

ClampApplies(turn_text, start_char, end_char) ==
    turn_text.t # "none" /\ (IsInstanceInt(start_char) \/ IsInstanceInt(end_char))

StartOf(start_char) == IF IsInstanceInt(start_char) THEN start_char ELSE PyInt(0)

EndOf_orDefault(end_char, text_len) ==
    IF IsInstanceInt(end_char) /\ Truthy(end_char) THEN end_char ELSE PyInt(text_len)

EndOf(end_char, text_len) == IF IsInstanceInt(end_char) THEN end_char ELSE PyInt(text_len)

FixedStart(start, text_len) == PyMax(PyInt(0), PyMin(start, PyInt(text_len)))

FixedEnd(fixed_start, end, text_len) == PyMax(fixed_start, PyMin(end, PyInt(text_len)))

\* fixed_start != start or fixed_end != end
OffsetChanged(fixed_start, start, fixed_end, end) ==
    fixed_start.n # start.n \/ fixed_end.n # end.n

\* the offset repair of one claim: whether it applies, whether it counts as a
\* fix, and the two values written to the copy
Repair(field, turn_text) ==
    LET start_char == DictGet(field.startChar)
        end_char == DictGet(field.endChar)
        text_len == Len(turn_text.s)
        start == StartOf(start_char)
        end == EndOf(end_char, text_len)
        fixed_start == FixedStart(start, text_len)
        fixed_end == FixedEnd(fixed_start, end, text_len)
    IN IF ClampApplies(turn_text, start_char, end_char)
       THEN [applies |-> TRUE,
             fixed |-> OffsetChanged(fixed_start, start, fixed_end, end),
             startChar |-> fixed_start, endChar |-> fixed_end]
       ELSE [applies |-> FALSE, fixed |-> FALSE,
             startChar |-> field.startChar, endChar |-> field.endChar]

\* field_copy after the repair
FieldCopy_snippetResolved(field, repair) ==
    LET copy == [field EXCEPT !.requestedSnippet = RequestedSnippet(field)]
    IN IF repair.applies
       THEN [copy EXCEPT !.startChar = repair.startChar, !.endChar = repair.endChar]
       ELSE copy

FieldCopy(field, repair) ==
    IF repair.applies
    THEN [field EXCEPT !.startChar = repair.startChar, !.endChar = repair.endChar]
    ELSE field

\* bool(requested_snippet) and requested_snippet in turn_text
SnippetFound(requested_snippet, turn_text) ==
    Truthy(requested_snippet) /\ Contains(requested_snippet.s, turn_text.s)

\* bool(value) and str(value) in turn_text
ValueFound_noStr(value, turn_text) ==
    Truthy(value) /\ IsInstanceStr(value) /\ Contains(value.s, turn_text.s)

ValueFound_noTruthy(value, turn_text) ==
    Contains(ToStr(value), turn_text.s)

ValueFound(value, turn_text) ==
    Truthy(value) /\ Contains(ToStr(value), turn_text.s)

\* "x in turn_text" raises TypeError unless x is a string
SnippetRaises(requested_snippet, turn_text) ==
    turn_text.t # "none" /\ Truthy(requested_snippet) /\ ~IsInstanceStr(requested_snippet)

\* reason and matchedBy (lines 159-160 and 175-193); reason0 is the reason
\* left by the offset repair
\* variants of the decision chain: the value tested before the snippet; a
\* missing snippet overriding offset_fixed; no value fallback for a missing
\* snippet
Classify_valueFirst(turn_text, requested_snippet, value, reason0) ==
    IF turn_text.t = "none"
    THEN [reason |-> "invalid_turnIndex", matchedBy |-> "none"]
    ELSE LET snippet_found == SnippetFound(requested_snippet, turn_text)
             value_found == ValueFound(value, turn_text)
         IN IF value_found
            THEN [reason |-> IF reason0 = "offset_fixed" THEN reason0 ELSE "ok",
                  matchedBy |-> "value"]
            ELSE IF snippet_found
            THEN [reason |-> IF reason0 = "offset_fixed" THEN reason0 ELSE "ok",
                  matchedBy |-> "snippet"]
            ELSE IF Truthy(requested_snippet)
            THEN [reason |-> IF reason0 = "offset_fixed" THEN "offset_fixed"
                             ELSE "snippet_not_found",
                  matchedBy |-> "none"]
            ELSE [reason |-> IF reason0 = "offset_fixed" THEN reason0
                             ELSE "value_not_found",
                  matchedBy |-> "none"]

Classify_notFoundWins(turn_text, requested_snippet, value, reason0) ==
    IF turn_text.t = "none"
    THEN [reason |-> "invalid_turnIndex", matchedBy |-> "none"]
    ELSE LET snippet_found == SnippetFound(requested_snippet, turn_text)
             value_found == ValueFound(value, turn_text)
         IN IF snippet_found
            THEN [reason |-> IF reason0 = "offset_fixed" THEN reason0 ELSE "ok",
                  matchedBy |-> "snippet"]
            ELSE IF Truthy(requested_snippet)
            THEN [reason |-> "snippet_not_found",
                  matchedBy |-> IF value_found THEN "value" ELSE "none"]
            ELSE IF value_found
            THEN [reason |-> IF reason0 = "offset_fixed" THEN reason0 ELSE "ok",
                  matchedBy |-> "value"]
            ELSE [reason |-> IF reason0 = "offset_fixed" THEN reason0
                             ELSE "value_not_found",
                  matchedBy |-> "none"]

Classify_noValueFallback(turn_text, requested_snippet, value, reason0) ==
    IF turn_text.t = "none"
    THEN [reason |-> "invalid_turnIndex", matchedBy |-> "none"]
    ELSE LET snippet_found == SnippetFound(requested_snippet, turn_text)
             value_found == ValueFound(value, turn_text)
         IN IF snippet_found
            THEN [reason |-> IF reason0 = "offset_fixed" THEN reason0 ELSE "ok",
                  matchedBy |-> "snippet"]
            ELSE IF Truthy(requested_snippet)
            THEN [reason |-> IF reason0 = "offset_fixed" THEN "offset_fixed"
                             ELSE "snippet_not_found",
                  matchedBy |-> "none"]
            ELSE IF value_found
            THEN [reason |-> IF reason0 = "offset_fixed" THEN reason0 ELSE "ok",
                  matchedBy |-> "value"]
            ELSE [reason |-> IF reason0 = "offset_fixed" THEN reason0
                             ELSE "value_not_found",
                  matchedBy |-> "none"]

Classify_matchedByBoth(turn_text, requested_snippet, value, reason0) ==
    IF turn_text.t = "none"
    THEN [reason |-> "invalid_turnIndex", matchedBy |-> "none"]
    ELSE LET snippet_found == SnippetFound(requested_snippet, turn_text)
             value_found == ValueFound(value, turn_text)
         IN IF snippet_found
            THEN [reason |-> IF reason0 = "offset_fixed" THEN reason0 ELSE "ok",
                  matchedBy |-> IF value_found THEN "both" ELSE "snippet"]
            ELSE IF Truthy(requested_snippet)
            THEN [reason |-> IF reason0 = "offset_fixed" THEN "offset_fixed"
                             ELSE "snippet_not_found",
                  matchedBy |-> IF value_found THEN "value" ELSE "none"]
            ELSE IF value_found
            THEN [reason |-> IF reason0 = "offset_fixed" THEN reason0 ELSE "ok",
                  matchedBy |-> "value"]
            ELSE [reason |-> IF reason0 = "offset_fixed" THEN reason0
                             ELSE "value_not_found",
                  matchedBy |-> "none"]

Classify_okAfterFix(turn_text, requested_snippet, value, reason0) ==
    IF turn_text.t = "none"
    THEN [reason |-> "invalid_turnIndex", matchedBy |-> "none"]
    ELSE LET snippet_found == SnippetFound(requested_snippet, turn_text)
             value_found == ValueFound(value, turn_text)
         IN IF snippet_found
            THEN [reason |-> "ok", matchedBy |-> "snippet"]
            ELSE IF Truthy(requested_snippet)
            THEN [reason |-> IF reason0 = "offset_fixed" THEN "offset_fixed"
                             ELSE "snippet_not_found",
                  matchedBy |-> IF value_found THEN "value" ELSE "none"]
            ELSE IF value_found
            THEN [reason |-> "ok", matchedBy |-> "value"]
            ELSE [reason |-> IF reason0 = "offset_fixed" THEN reason0
                             ELSE "value_not_found",
                  matchedBy |-> "none"]

Classify_invalidMatchesValue(turn_text, requested_snippet, value, reason0) ==
    IF turn_text.t = "none"
    THEN [reason |-> "invalid_turnIndex",
          matchedBy |-> IF Truthy(value) THEN "value" ELSE "none"]
    ELSE LET snippet_found == SnippetFound(requested_snippet, turn_text)
             value_found == ValueFound(value, turn_text)
         IN IF snippet_found
            THEN [reason |-> IF reason0 = "offset_fixed" THEN reason0 ELSE "ok",
                  matchedBy |-> "snippet"]
            ELSE IF Truthy(requested_snippet)
            THEN [reason |-> IF reason0 = "offset_fixed" THEN "offset_fixed"
                             ELSE "snippet_not_found",
                  matchedBy |-> IF value_found THEN "value" ELSE "none"]
            ELSE IF value_found
            THEN [reason |-> IF reason0 = "offset_fixed" THEN reason0 ELSE "ok",
                  matchedBy |-> "value"]
            ELSE [reason |-> IF reason0 = "offset_fixed" THEN reason0
                             ELSE "value_not_found",
                  matchedBy |-> "none"]

Classify(turn_text, requested_snippet, value, reason0) ==
    IF turn_text.t = "none"
    THEN [reason |-> "invalid_turnIndex", matchedBy |-> "none"]
    ELSE LET snippet_found == SnippetFound(requested_snippet, turn_text)
             value_found == ValueFound(value, turn_text)
         IN IF snippet_found
            THEN [reason |-> IF reason0 = "offset_fixed" THEN reason0 ELSE "ok",
                  matchedBy |-> "snippet"]
            ELSE IF Truthy(requested_snippet)
            THEN [reason |-> IF reason0 = "offset_fixed" THEN "offset_fixed"
                             ELSE "snippet_not_found",
                  matchedBy |-> IF value_found THEN "value" ELSE "none"]
            ELSE IF value_found
            THEN [reason |-> IF reason0 = "offset_fixed" THEN reason0 ELSE "ok",
                  matchedBy |-> "value"]
            ELSE [reason |-> IF reason0 = "offset_fixed" THEN reason0
                             ELSE "value_not_found",
                  matchedBy |-> "none"]

\* list.append(item)
ListAppend_front(list, item) == <<item>> \o list

ListAppend(list, item) == Append(list, item)

\* the FieldReport of one claim (lines 195-205)
FieldReport_rawValue(field, turn_text, repair) ==
    LET requested_snippet == RequestedSnippet(field)
        value == DictGet(field.value)
        c == Classify(turn_text, requested_snippet, value,
                      IF repair.fixed THEN "offset_fixed" ELSE "ok")
    IN [field |-> FieldName(field),
        turnIndex |-> DictGet(field.turnIndex),
        reason |-> c.reason,
        matchedBy |-> c.matchedBy,
        turnTextPreview |-> _redact_preview(turn_text),
        snippetPreview |-> _redact_preview(requested_snippet),
        valuePreview |-> IF Truthy(value) THEN ToStr(value) ELSE <<>>]

FieldReport(field, turn_text, repair) ==
    LET requested_snippet == RequestedSnippet(field)
        value == DictGet(field.value)
        c == Classify(turn_text, requested_snippet, value,
                      IF repair.fixed THEN "offset_fixed" ELSE "ok")
    IN [field |-> FieldName(field),
        turnIndex |-> DictGet(field.turnIndex),
        reason |-> c.reason,
        matchedBy |-> c.matchedBy,
        turnTextPreview |-> _redact_preview(turn_text),
        snippetPreview |-> _redact_preview(requested_snippet),
        valuePreview |-> _redact_preview(value)]

----------------------------------------------------------------------------
\* format_sanitize_report (lines 217-239).  The text is a sequence of
\* characters; the literal parts of the f-strings:

InvalidCountLabel ==
    <<"i", "n", "v", "a", "l", "i", "d", "E", "v", "i", "d", "e", "n", "c",
      "e", "C", "o", "u", "n", "t", ":", " ">>

FixedCountLabel ==
    <<"f", "i", "x", "e", "d", "O", "f", "f", "s", "e", "t", "C", "o", "u",
      "n", "t", ":", " ">>

FieldLabel ==
    <<"-", " ", "f", "i", "e", "l", "d", "=", "'">>

TurnIndexLabel ==
    <<"'", " ", "t", "u", "r", "n", "I", "n", "d", "e", "x", "=">>

ReasonLabel ==
    <<" ", "r", "e", "a", "s", "o", "n", "=">>

MatchedByLabel ==
    <<" ", "m", "a", "t", "c", "h", "e", "d", "B", "y", "=">>

TurnTextPreviewLabel ==
    <<" ", " ", "t", "u", "r", "n", "T", "e", "x", "t", "P", "r", "e", "v",
      "i", "e", "w", ":", " ">>

SnippetPreviewLabel ==
    <<" ", " ", "s", "n", "i", "p", "p", "e", "t", "P", "r", "e", "v", "i",
      "e", "w", ":", " ">>

ValuePreviewLabel ==
    <<" ", " ", "v", "a", "l", "u", "e", "P", "r", "e", "v", "i", "e", "w",
      ":", " ">>

\* the characters of a reason or matchedBy code
CodeChars(code) ==
    CASE code = "ok" ->
           <<"o", "k">>
      [] code = "invalid_turnIndex" ->
           <<"i", "n", "v", "a", "l", "i", "d", "_", "t", "u", "r", "n", "I", "n",
           "d", "e", "x">>
      [] code = "snippet_not_found" ->
           <<"s", "n", "i", "p", "p", "e", "t", "_", "n", "o", "t", "_", "f", "o",
           "u", "n", "d">>
      [] code = "value_not_found" ->
           <<"v", "a", "l", "u", "e", "_", "n", "o", "t", "_", "f", "o", "u", "n",
           "d">>
      [] code = "offset_fixed" ->
           <<"o", "f", "f", "s", "e", "t", "_", "f", "i", "x", "e", "d">>
      [] code = "snippet" ->
           <<"s", "n", "i", "p", "p", "e", "t">>
      [] code = "value" ->
           <<"v", "a", "l", "u", "e">>
      [] code = "none" ->
           <<"n", "o", "n", "e">>

\* the header line of one field report
FieldHeader(field) ==
    FieldLabel \o ToStr(field.field) \o TurnIndexLabel \o ToStr(field.turnIndex)
        \o ReasonLabel \o CodeChars(field.reason)
        \o MatchedByLabel \o CodeChars(field.matchedBy)

\* the lines of one field report: the header, then a line for each preview
\* that is truthy
FieldBlock_emptyPreviewLines(field) ==
    <<FieldHeader(field),
      TurnTextPreviewLabel \o field.turnTextPreview,
      SnippetPreviewLabel \o field.snippetPreview,
      ValuePreviewLabel \o field.valuePreview>>

FieldBlock(field) ==
    <<FieldHeader(field)>>
        \o (IF field.turnTextPreview # <<>>
            THEN <<TurnTextPreviewLabel \o field.turnTextPreview>> ELSE <<>>)
        \o (IF field.snippetPreview # <<>>
            THEN <<SnippetPreviewLabel \o field.snippetPreview>> ELSE <<>>)
        \o (IF field.valuePreview # <<>>
            THEN <<ValuePreviewLabel \o field.valuePreview>> ELSE <<>>)

\* the loop over report["perField"], appending to lines
RECURSIVE ReportLines(_, _)
ReportLines(lines, perField) ==
    IF perField = <<>> THEN lines
    ELSE ReportLines(lines \o FieldBlock(Head(perField)), Tail(perField))

\* "\n".join(lines)
RECURSIVE JoinLines(_)
JoinLines(lines) ==
    IF lines = <<>> THEN <<>>
    ELSE IF Len(lines) = 1 THEN lines[1]
    ELSE lines[1] \o <<"\n">> \o JoinLines(Tail(lines))

format_sanitize_report(report) ==
    JoinLines(ReportLines(<<InvalidCountLabel \o IntStr(report.invalidEvidenceCount),
                            FixedCountLabel \o IntStr(report.fixedOffsetCount)>>,
                          report.perField))

----------------------------------------------------------------------------
\* _compute_missing_count of the log viewer (src/dev_log_viewer.py, lines
\* 155-175) on a bundle {"extractionTrace": trace} and a sanitize report

\* the first loop: reports with a missing-evidence reason or matchedBy none
MissingByReport(report) ==
    Cardinality({i \in 1..Len(report.perField) :
        \/ report.perField[i].reason \in
               {"invalid_turnIndex", "snippet_not_found", "value_not_found"}
        \/ report.perField[i].matchedBy = "none"})

\* the second loop: entries of the final trace with neither value nor
\* requestedSnippet
MissingByTrace(trace) ==
    Cardinality({i \in 1..Len(trace.perField) :
        /\ ~Truthy(DictGet(trace.perField[i].value))
        /\ ~Truthy(DictGet(trace.perField[i].requestedSnippet))})

_compute_missing_count(trace, report) == MissingByReport(report) + MissingByTrace(trace)

----------------------------------------------------------------------------
\* State of one caller of sanitizeExtractionTrace

VARIABLES
    pc,                     \* "idle", "loop", "done" or "raised"
    pass,                   \* 1: the caller's trace, 2: the sanitized trace fed back
    extraction_trace,       \* the argument of the call
    turns,                  \* line 136
    per_field_raw,          \* line 137
    k,                      \* number of claims the loop has consumed
    sanitized_fields,
    per_field_report,
    invalid_evidence_count,
    fixed_offset_count,
    sanitized_trace,        \* the returned pair, set when pc = "done"
    sanitize_report,
    first_trace,            \* the results of pass 1, kept by the caller
    first_report,
    callers,                \* the locals of each of several concurrent calls on
                            \* the one object extraction_trace
    rendered,               \* the text format_sanitize_report returned
    missing,                \* the viewer's missing-field count of the bundle
    game,                   \* the pinch game: the locals of main() and its targets
    viewer                  \* the log viewer's server, its files and its threads

vars == <<pc, pass, extraction_trace, turns, per_field_raw, k, sanitized_fields,
          per_field_report, invalid_evidence_count, fixed_offset_count,
          sanitized_trace, sanitize_report, first_trace, first_report, callers, rendered, missing, game, viewer>>

----------------------------------------------------------------------------
\* The pinch game of src/pinch_ninja_stickman.py.  The window is one row of
\* cells 0..MaxCell (the positions a target's centre can take between the two
\* borders), time is counted in ticks, and `game` holds the locals of main().

HOLD_FRAMES == 3
RELEASE_FRAMES == 3
SCORE_PER_HIT == 10
\* number of targets and ticks per round of the model's game
TARGET_COUNT == 2
GAME_DURATION == 1
\* the last cell of the row
MaxCell == 1
\* the loop is followed while the clock, the two debounce counters, the
\* number of hits scored and the number of create_targets calls stay within
MaxTime == 1
MaxCount == 3
MaxHits == 2
MaxRounds == 2

\* the right hand's cell, the cells the slash can reach from the hand
\* (SLASH_LENGTH) and the distance that counts as a hit (HIT_RADIUS), in cells
HandCell == 0
SlashCells == 1
HitCells == 0

Keys == {"none", "q", "r"}

Max(a, b) == IF a >= b THEN a ELSE b
Min(a, b) == IF a <= b THEN a ELSE b
Abs(a) == IF a >= 0 THEN a ELSE 0 - a

\* Target.respawn: any position between the borders; of the random directions
\* the one towards the last cell is drawn, the bounce gives the other
Spawns == [position : 0..MaxCell, velocity : {1}]

\* create_targets: TARGET_COUNT fresh targets, each respawned once
create_targets == [1..TARGET_COUNT -> Spawns]

\* Target.move: one step, then bounce and clip at a border
move(target) ==
    LET position == target.position + target.velocity
    IN  IF position <= 0 \/ position >= MaxCell
        THEN [position |-> Max(0, Min(MaxCell, position)),
              velocity |-> 0 - target.velocity]
        ELSE [position |-> position, velocity |-> target.velocity]

\* slash_line: from the hand to where the sweep points; the sweep angle
\* follows frame_count, which follows the wall clock, so `sweep` is an input
slash_line(right_hand, sweep) == <<right_hand, right_hand + sweep>>

\* point_line_distance on the row: distance to the clamped projection
point_line_distance(point, start, end) ==
    IF end = start
    THEN Abs(point - start)
    ELSE Abs(point - Max(Min(start, end), Min(Max(start, end), point)))

\* check_hits: the indexes of the targets within HIT_RADIUS of the slash
check_hits(targets, slash_start, slash_end) ==
    {idx \in 1..Len(targets) :
        point_line_distance(targets[idx].position, slash_start, slash_end) <= HitCells}

\* the debounce of lines 216-226: the counters and state after one frame
Debounce_noReset(g, pinch_now) ==
    IF pinch_now
    THEN [hold_counter |-> g.hold_counter + 1,
          release_counter |-> g.release_counter,
          pinch_on |-> g.pinch_on \/ g.hold_counter + 1 >= HOLD_FRAMES]
    ELSE [hold_counter |-> g.hold_counter,
          release_counter |-> g.release_counter + 1,
          pinch_on |-> g.pinch_on /\ ~(g.release_counter + 1 >= RELEASE_FRAMES)]

Debounce(g, pinch_now) ==
    IF pinch_now
    THEN [hold_counter |-> g.hold_counter + 1,
          release_counter |-> 0,
          pinch_on |-> g.pinch_on \/ g.hold_counter + 1 >= HOLD_FRAMES]
    ELSE [hold_counter |-> 0,
          release_counter |-> g.release_counter + 1,
          pinch_on |-> g.pinch_on /\ ~(g.release_counter + 1 >= RELEASE_FRAMES)]

\* remaining = max(0.0, GAME_DURATION - elapsed)
Remaining(now, start_time) == Max(0, GAME_DURATION - (now - start_time))

\* score += SCORE_PER_HIT * len(hits)
ScoreGain_perFrame(hits) == IF hits = {} THEN 0 ELSE SCORE_PER_HIT

ScoreGain(hits) == SCORE_PER_HIT * Cardinality(hits)

\* what the 'r' key resets (lines 272-278); `fresh` is create_targets' result
Restart_keepsPinch(g, fresh) ==
    [g EXCEPT !.score = 0, !.start_time = g.now, !.targets = fresh,
              !.created = g.created + 1]

Restart(g, fresh) ==
    [g EXCEPT !.score = 0, !.start_time = g.now, !.targets = fresh,
              !.created = g.created + 1,
              !.pinch_on = FALSE, !.hold_counter = 0, !.release_counter = 0]

\* no game is being played
NoGame ==
    [running |-> FALSE, pinch_on |-> FALSE, hold_counter |-> 0, release_counter |-> 0,
     score |-> 0, start_time |-> 0, now |-> 0, targets |-> <<>>, created |-> 0,
     pinch_now |-> FALSE, remaining |-> 0, slashing |-> FALSE, hits |-> 0,
     key |-> "none", run |-> 0]

\* main() up to the loop (lines 170-182).  The fields after `created` are not
\* assigned before the first frame: pinch_now, remaining, slashing (the test
\* `pinch_on and remaining > 0`), hits (len(hits)) and key are the locals of
\* the last frame, run is the length of the current run of frames with one
\* same pinch_now (kept for the properties, counted up to MaxCount).
GameStart(fresh) ==
    [running |-> TRUE, pinch_on |-> FALSE, hold_counter |-> 0, release_counter |-> 0,
     score |-> 0, start_time |-> 0, now |-> 0, targets |-> fresh, created |-> 1,
     pinch_now |-> FALSE, remaining |-> GAME_DURATION, slashing |-> FALSE, hits |-> 0,
     key |-> "none", run |-> 0]

----------------------------------------------------------------------------
\* The log viewer's server of src/dev_log_viewer.py: a ThreadingHTTPServer,
\* one thread per request.  `viewer` holds the environment, the notes file,
\* the probe-plan review queue and, for each thread, the request it serves,
\* where it is in the handler, its local `lines` and the status it answered.

\* requests served in one run of the server
MaxRequests == 3

Handlers == 1..NumCallers
RequestIds == {"a", "b"}
\* a key that is missing from the request, or holds a falsy or non-str value
Missing == "missing"
\* os.environ.get of a variable that is not set
Unset == "unset"
Environments == [NODE_ENV : {"development", "production"}, DAL_LOG_UI : {"true", Unset}]

NOT_FOUND == 404
BAD_REQUEST == 400
OK == 200

\* the routes of do_GET and do_POST that only exist in development, and
\* one POST path that is no route
Routes == {"GET /api/dev/trace-bundle/download", "POST /dev/logs/api/note",
           "POST /dev/logs/api/probe-plan", "POST /dev/logs/api/other"}

\* a request: the body is JSON or not; requestId comes from the body, or from
\* the query string of a GET; text is the body's note or draftText
Request(route, json, requestId, text) ==
    [route |-> route, json |-> json, requestId |-> requestId, text |-> text]

Requests ==
    {Request("GET /api/dev/trace-bundle/download", FALSE, id, Missing) :
        id \in RequestIds \cup {Missing}}
    \cup {Request("POST /dev/logs/api/other", FALSE, Missing, Missing)}
    \cup UNION {{Request(route, FALSE, Missing, Missing)} \cup
                {Request(route, TRUE, id, text) :
                    id \in RequestIds \cup {Missing}, text \in {"n", Missing}} :
                route \in {"POST /dev/logs/api/note", "POST /dev/logs/api/probe-plan"}}

\* the requestIds that have a bundle on disk
Bundles == {"a"}

_dev_bundle_download_enabled_either(env) ==
    env.NODE_ENV = "development" \/ env.DAL_LOG_UI = "true"

_dev_bundle_download_enabled(env) ==
    env.NODE_ENV = "development" /\ env.DAL_LOG_UI = "true"

_dev_mutation_enabled(env) == _dev_bundle_download_enabled(env)

\* the lines of 70_notes.md
TitleLine == [kind |-> "title", id |-> "", timestamp |-> 0, text |-> ""]
BlankLine == [kind |-> "blank", id |-> "", timestamp |-> 0, text |-> ""]
HeaderLine(request_id) == [kind |-> "header", id |-> request_id, timestamp |-> 0, text |-> ""]
EntryLine(timestamp, clean_note) ==
    [kind |-> "entry", id |-> "", timestamp |-> timestamp, text |-> clean_note]

\* "\n".join(lines).rstrip() + "\n", as splitlines() reads it back: the
\* lines without the blank lines at the end
RECURSIVE Rstrip(_)
Rstrip(lines) ==
    IF lines # <<>> /\ lines[Len(lines)] = BlankLine
    THEN Rstrip(SubSeq(lines, 1, Len(lines) - 1))
    ELSE lines

\* lines.index(header_line)
IndexOf(lines, line) == CHOOSE i \in 1..Len(lines) :
    lines[i] = line /\ \A j \in 1..(i - 1) : lines[j] # line

\* the while loop of lines 315-316: the first header at or after `from`, or
\* the end of the list (positions count from 1)
SectionEnd(lines, from) ==
    IF \E i \in from..Len(lines) : lines[i].kind = "header"
    THEN CHOOSE i \in from..Len(lines) :
            lines[i].kind = "header" /\ \A j \in from..(i - 1) : lines[j].kind # "header"
    ELSE Len(lines) + 1

\* lines.insert(insert_at, entry_line)
Insert(lines, at, line) ==
    SubSeq(lines, 1, at - 1) \o <<line>> \o SubSeq(lines, at, Len(lines))

\* lines 308-317 of _append_note_for_request: the new content of `lines`
WithEntry(lines, header_line, entry_line) ==
    IF \A i \in 1..Len(lines) : lines[i] # header_line
    THEN (IF lines # <<>> /\ lines[Len(lines)] # BlankLine
          THEN lines \o <<BlankLine>> ELSE lines)
         \o <<header_line, entry_line, BlankLine>>
    ELSE Insert(lines, SectionEnd(lines, IndexOf(lines, header_line) + 1), entry_line)

\* _enqueue_probe_plan: one line appended to the queue file
_enqueue_probe_plan(queue, request_id, draft_text, created_at) ==
    Append(queue, [requestId |-> request_id, draftText |-> draft_text,
                   createdAt |-> created_at])

\* the status do_GET answers on the download route
do_GET_status(env, request) ==
    IF ~_dev_bundle_download_enabled(env) THEN NOT_FOUND
    ELSE IF request.requestId = Missing THEN BAD_REQUEST
    ELSE IF request.requestId \notin Bundles THEN NOT_FOUND
    ELSE OK

\* the status do_POST answers before it saves anything; OK when the request
\* passes the route's checks
do_POST_status(env, request) ==
    IF request.route \notin {"POST /dev/logs/api/note", "POST /dev/logs/api/probe-plan"}
    THEN NOT_FOUND
    ELSE IF ~_dev_mutation_enabled(env) THEN NOT_FOUND
    ELSE IF ~request.json THEN BAD_REQUEST
    ELSE IF request.requestId = Missing THEN BAD_REQUEST
    ELSE IF request.text = Missing THEN BAD_REQUEST
    ELSE OK

NoRequest == Request("none", FALSE, Missing, Missing)

\* a thread that serves no request
IdleHandler ==
    [pc |-> "idle", request |-> NoRequest, timestamp |-> 0, lines |-> <<>>]

\* the notes file is missing, or holds one note saved earlier
NotesFiles ==
    {[exists |-> FALSE, lines |-> <<>>],
     [exists |-> TRUE,
      lines |-> <<TitleLine, BlankLine, HeaderLine("a"), EntryLine(0, "n")>>]}

\* the viewer is not running
NoViewer ==
    [env |-> [NODE_ENV |-> Unset, DAL_LOG_UI |-> Unset],
     notes |-> [exists |-> FALSE, lines |-> <<>>], queue |-> <<>>, clock |-> 0,
     handlers |-> [h \in Handlers |-> IdleHandler],
     last |-> [request |-> NoRequest, status |-> 0], saved |-> {}]

\* main(): the server starts in some environment over the files on disk;
\* clock counts the requests served and gives the timestamps, last is the
\* answer sent last, saved is the set of notes whose POST was answered OK
\* (both kept for the properties)
ViewerStart(env, notes) ==
    [env |-> env, notes |-> notes, queue |-> <<>>, clock |-> 1,
     handlers |-> [h \in Handlers |-> IdleHandler],
     last |-> [request |-> NoRequest, status |-> 0],
     saved |-> IF notes.exists THEN {[id |-> "a", timestamp |-> 0]} ELSE {}]

----------------------------------------------------------------------------
AbsentKey == [t |-> "absent", items |-> <<>>]
\* a key holding None
NoneKey == [t |-> "none", items |-> <<>>]
PyList(items) == [t |-> "list", items |-> items]

StrTurn(chars) == [t |-> "str", s |-> chars, text |-> Absent, content |-> Absent,
                   turnText |-> Absent, message |-> Absent]

\* {"text": text}
TextTurn(chars) == [t |-> "dict", s |-> <<>>, text |-> PyStr(chars), content |-> Absent,
                    turnText |-> Absent, message |-> Absent]

NoTrace == [turns |-> <<>>, perField |-> <<>>]
NoReport == [invalidEvidenceCount |-> 0, fixedOffsetCount |-> 0, perField |-> <<>>]

\* the trace {"turns": ..., "perField": ...} as the argument of a call
TraceInput(turnItems, claims) ==
    [t |-> "dict", turns |-> PyList(turnItems), conversation |-> AbsentKey,
     conversationTurns |-> AbsentKey, turnTexts |-> AbsentKey,
     perField |-> PyList(claims), fields |-> AbsentKey]

----------------------------------------------------------------------------
\* Inputs

SeqsUpTo(S, n) == UNION {[1..m -> S] : m \in 0..n}

TurnTexts == {<<>>, <<"1", "0">>}

TurnLists == SeqsUpTo({StrTurn(txt) : txt \in TurnTexts}, MaxTurns)

OffsetValues == {Absent, PyFloat(MaxOffset)} \cup {PyInt(o) : o \in (0 - 1)..MaxOffset}

TurnIndexValues ==
    {Absent, PyBool(TRUE), PyStr(<<"0">>)} \cup {PyInt(i) : i \in (0 - 1)..MaxTurns}

SnippetValues == {Absent, PyStr(<<>>), PyStr(<<"1">>), PyStr(<<"a">>), PyInt(5)}

ValueValues == {Absent, PyStr(<<>>), PyStr(<<"a">>), PyInt(0), PyInt(1), PyBool(FALSE)}

\* single claims, every combination of index, snippet, value and offsets
FieldClaims ==
    [t : {"dict"}, field : {PyStr(<<"f">>)}, name : {Absent}, path : {Absent},
     turnIndex : TurnIndexValues,
     requestedSnippet : SnippetValues, snippet : {Absent}, evidence : {Absent},
     value : ValueValues, startChar : OffsetValues, endChar : OffsetValues]

\* claims of traces with several claims: a claim named by "field" without a
\* snippet, one named by "name" with its snippet under "snippet", one with a
\* snippet that is a number; each on turn 0 or 1, with offsets absent or out
\* of range
TraceClaims ==
    {[t |-> "dict", field |-> sh[1], name |-> sh[2], path |-> Absent,
      turnIndex |-> PyInt(ti),
      requestedSnippet |-> sh[3], snippet |-> sh[4], evidence |-> Absent,
      value |-> Absent, startChar |-> off[1], endChar |-> off[2]] :
        sh \in {<<PyStr(<<"f">>), Absent, Absent, Absent>>,
                <<Absent, PyStr(<<"g">>), PyStr(<<>>), PyStr(<<"0">>)>>,
                <<PyStr(<<"h">>), Absent, PyInt(5), Absent>>},
        ti \in 0..1,
        off \in {<<Absent, Absent>>, <<PyInt(0 - 1), PyInt(MaxOffset)>>}}

\* an argument that is not a mapping: a list, a string or None
NonMapping(tag) ==
    [t |-> tag, turns |-> AbsentKey, conversation |-> AbsentKey,
     conversationTurns |-> AbsentKey, turnTexts |-> AbsentKey,
     perField |-> AbsentKey, fields |-> AbsentKey]

\* an item of the claim list that is not a mapping: the number 7
NumberItem ==
    [t |-> "int", field |-> Absent, name |-> Absent, path |-> Absent,
     turnIndex |-> Absent, requestedSnippet |-> Absent, snippet |-> Absent,
     evidence |-> Absent, value |-> Absent, startChar |-> Absent, endChar |-> Absent]

\* malformed arguments every caller may hold
MalformedInputs ==
    {NonMapping(tag) : tag \in {"list", "str", "none"}}
        \cup {TraceInput(<<StrTurn(<<"1", "0">>)>>, <<NumberItem>>)}

CallerIds == 1..NumCallers

\* the locals of a call that has not started, on the argument given
NotStarted(given) ==
    [pc |-> "idle", given |-> given, turns |-> <<>>, k |-> 0,
     sanitized_fields |-> <<>>, per_field_report |-> <<>>,
     invalid_evidence_count |-> 0, fixed_offset_count |-> 0,
     sanitized_trace |-> NoTrace, sanitize_report |-> NoReport]

\* no call of sanitizeExtractionTrace has started
SanitizerIdle ==
    /\ callers = [c \in CallerIds |-> NotStarted(extraction_trace)]
    /\ rendered = <<>>
    /\ missing = 0
    /\ pc = "idle"
    /\ pass = 1
    /\ turns = <<>>
    /\ per_field_raw = <<>>
    /\ k = 0
    /\ sanitized_fields = <<>>
    /\ per_field_report = <<>>
    /\ invalid_evidence_count = 0
    /\ fixed_offset_count = 0
    /\ sanitized_trace = NoTrace
    /\ sanitize_report = NoReport
    /\ first_trace = NoTrace
    /\ first_report = NoReport

InitWith(inputs) ==
    /\ extraction_trace \in inputs \cup MalformedInputs
    /\ SanitizerIdle
    /\ game = NoGame
    /\ viewer = NoViewer

\* a caller holding a trace of at most MaxFields claims
Init ==
    InitWith({TraceInput(tl, cl) : tl \in TurnLists, cl \in SeqsUpTo(TraceClaims, MaxFields)})

\* a caller holding a trace of one claim
InitField ==
    InitWith({TraceInput(tl, <<c>>) : tl \in TurnLists, c \in FieldClaims})

Repeat(c, n) == [j \in 1..n |-> c]

\* strings around the preview limit: lead spaces, a letters, a run of b
\* spaces, c letters
LongStrings ==
    {Repeat(" ", lead) \o Repeat("x", a) \o Repeat(" ", b) \o Repeat("x", c) :
        lead \in 0..1,
        a \in {0, 1, PREVIEW_LIMIT - 4, PREVIEW_LIMIT - 3, PREVIEW_LIMIT - 2},
        b \in 0..MaxRun,
        c \in 0..MaxTail}

\* one claim on turn 0 or 1 of a one-turn trace, with a string around the
\* preview limit as turn text, as snippet or as value
PreviewInputs ==
    {TraceInput(<<StrTurn(txt[1])>>,
                <<[t |-> "dict", field |-> PyStr(<<"f">>), name |-> Absent, path |-> Absent,
                   turnIndex |-> PyInt(ti), requestedSnippet |-> PyStr(txt[2]),
                   snippet |-> Absent, evidence |-> Absent, value |-> txt[3],
                   startChar |-> Absent, endChar |-> Absent]>>) :
        ti \in 0..1,
        txt \in {<<str, <<"x">>, PyInt(1)>> : str \in LongStrings}
                \cup {<<<<"x">>, str, PyInt(0)>> : str \in LongStrings}
                \cup {<<<<"x">>, <<>>, PyStr(str)>> : str \in LongStrings}}

\* a caller holding a trace with a long string
InitPreview == InitWith(PreviewInputs)

\* what a key of the trace may hold: nothing, None, [] or a list of one item
KeyValues(item) == {AbsentKey, NoneKey, PyList(<<>>), PyList(<<item>>)}

\* a claim on turn 0 that names its field and nothing else
NamedClaim(name) ==
    [t |-> "dict", field |-> PyStr(<<name>>), name |-> Absent, path |-> Absent,
     turnIndex |-> PyInt(0), requestedSnippet |-> Absent, snippet |-> Absent,
     evidence |-> Absent, value |-> Absent, startChar |-> Absent, endChar |-> Absent]

\* traces with every combination of the four turn keys and the two claim keys
KeyInputs ==
    [t : {"dict"},
     turns : KeyValues(StrTurn(<<"t">>)),
     conversation : KeyValues(StrTurn(<<"c">>)),
     conversationTurns : KeyValues(StrTurn(<<"u">>)),
     turnTexts : KeyValues(StrTurn(<<"x">>)),
     perField : KeyValues(NamedClaim("p")),
     fields : KeyValues(NamedClaim("f"))]

\* a turn that is neither a string nor a mapping: the number 7
NumberTurn == [t |-> "int", s |-> <<>>, text |-> Absent, content |-> Absent,
               turnText |-> Absent, message |-> Absent]

\* what a key of a turn record may hold: nothing, 5, "" or a one-letter text
TextValues(char) == {Absent, PyInt(5), PyStr(<<>>), PyStr(<<char>>)}

TurnShapes ==
    [t : {"dict"}, s : {<<>>}, text : TextValues("t"), content : TextValues("c"),
     turnText : TextValues("u"), message : TextValues("m")]
        \cup {StrTurn(<<"s">>), NumberTurn}

TurnShapesInLists ==
    {StrTurn(<<"s">>), NumberTurn,
     [t |-> "dict", s |-> <<>>, text |-> PyStr(<<>>), content |-> PyStr(<<"c">>),
      turnText |-> Absent, message |-> Absent],
     [t |-> "dict", s |-> <<>>, text |-> PyInt(5), content |-> Absent,
      turnText |-> Absent, message |-> PyStr(<<"m">>)]}

\* traces with one turn of every shape, or with two turns
ShapeInputs ==
    {TraceInput(<<turn>>, <<NamedClaim("p")>>) : turn \in TurnShapes}
        \cup {TraceInput(<<t1, t2>>, <<NamedClaim("p")>>) :
                 t1 \in TurnShapesInLists, t2 \in TurnShapesInLists}

\* claims with and without a valid turn, a snippet and a value
FormatClaims ==
    [t : {"dict"}, field : {PyStr(<<"f">>)}, name : {Absent}, path : {Absent},
     turnIndex : {Absent, PyInt(0)},
     requestedSnippet : {Absent, PyStr(<<"1">>)}, snippet : {Absent}, evidence : {Absent},
     value : {Absent, PyStr(<<"a">>), PyInt(1)},
     startChar : {Absent}, endChar : {Absent}]

\* a caller holding a trace whose report it will format
InitFormat ==
    InitWith({TraceInput(tl, cl) : tl \in TurnLists, cl \in SeqsUpTo(FormatClaims, MaxFields)})

\* a caller holding a trace with any of the keys
InitLookup == InitWith(KeyInputs \cup ShapeInputs)

----------------------------------------------------------------------------
\* Actions

\* the call entry, lines 136-142
Call ==
    /\ pc = "idle"
    /\ ~TraceRaises(extraction_trace)
    /\ turns' = _extract_turns(extraction_trace)
    /\ per_field_raw' = PerFieldRaw(extraction_trace)
    /\ sanitized_fields' = <<>>
    /\ per_field_report' = <<>>
    /\ invalid_evidence_count' = 0
    /\ fixed_offset_count' = 0
    /\ k' = 0
    /\ pc' = "loop"
    /\ UNCHANGED <<pass, extraction_trace, sanitized_trace, sanitize_report,
                   first_trace, first_report, callers, rendered, missing, game, viewer>>

\* a call that raises AttributeError at line 121: it ends without a result
CallRaises ==
    /\ pc = "idle"
    /\ TraceRaises(extraction_trace)
    /\ pc' = "raised"
    /\ UNCHANGED <<pass, extraction_trace, turns, per_field_raw, k, sanitized_fields,
                   per_field_report, invalid_evidence_count, fixed_offset_count,
                   sanitized_trace, sanitize_report, first_trace, first_report, callers, rendered, missing, game, viewer>>

\* one iteration of the loop, lines 144-206
SanitizeField ==
    /\ pc = "loop"
    /\ k < Len(per_field_raw)
    /\ LET field == per_field_raw[k + 1]
           turn_text == TurnTextOf(field, turns)
           repair == Repair(field, turn_text)
       IN /\ ~ClaimRaises(field)
          /\ ~SnippetRaises(RequestedSnippet(field), turn_text)
          /\ invalid_evidence_count' =
                 IF turn_text.t = "none" THEN invalid_evidence_count + 1
                 ELSE invalid_evidence_count
          /\ fixed_offset_count' =
                 IF repair.fixed THEN fixed_offset_count + 1 ELSE fixed_offset_count
          /\ per_field_report' =
                 ListAppend(per_field_report, FieldReport(field, turn_text, repair))
          /\ sanitized_fields' = ListAppend(sanitized_fields, FieldCopy(field, repair))
    /\ k' = k + 1
    /\ UNCHANGED <<pc, pass, extraction_trace, turns, per_field_raw,
                   sanitized_trace, sanitize_report, first_trace, first_report, callers, rendered, missing, game, viewer>>

\* an iteration that raises at line 145 or 146 (an item that is not a mapping)
\* or at line 178 (TypeError): the call ends without a result
SanitizeFieldRaises ==
    /\ pc = "loop"
    /\ k < Len(per_field_raw)
    /\ LET field == per_field_raw[k + 1]
       IN \/ ClaimRaises(field)
          \/ SnippetRaises(RequestedSnippet(field), TurnTextOf(field, turns))
    /\ pc' = "raised"
    /\ UNCHANGED <<pass, extraction_trace, turns, per_field_raw, k, sanitized_fields,
                   per_field_report, invalid_evidence_count, fixed_offset_count,
                   sanitized_trace, sanitize_report, first_trace, first_report, callers, rendered, missing, game, viewer>>

\* lines 208-214
Return ==
    /\ pc = "loop"
    /\ k = Len(per_field_raw)
    /\ sanitized_trace' = [turns |-> [j \in 1..Len(turns) |-> TextTurn(turns[j])],
                           perField |-> sanitized_fields]
    /\ sanitize_report' = [invalidEvidenceCount |-> invalid_evidence_count,
                           fixedOffsetCount |-> fixed_offset_count,
                           perField |-> per_field_report]
    /\ pc' = "done"
    /\ UNCHANGED <<pass, extraction_trace, turns, per_field_raw, k, sanitized_fields,
                   per_field_report, invalid_evidence_count, fixed_offset_count,
                   first_trace, first_report, callers, rendered, missing, game, viewer>>

\* the caller feeds the sanitized trace back into the sanitizer
Feedback ==
    /\ pc = "done"
    /\ pass = 1
    /\ first_trace' = sanitized_trace
    /\ first_report' = sanitize_report
    /\ extraction_trace' = TraceInput(sanitized_trace.turns, sanitized_trace.perField)
    /\ pass' = 2
    /\ pc' = "idle"
    /\ UNCHANGED <<turns, per_field_raw, k, sanitized_fields, per_field_report,
                   invalid_evidence_count, fixed_offset_count, sanitized_trace,
                   sanitize_report, callers, rendered, missing, game, viewer>>

\* The same code run by several callers at once on one argument object.  Each
\* call has its own locals; per_field_raw is a reference into the argument,
\* so each iteration reads the claim from extraction_trace as it is then.

\* what the argument object holds after an iteration: field_copy is a new
\* dict (line 145), so writing its offsets leaves the argument as it was
CallerTraceAfter_aliased(trace, idx, field_copy) ==
    IF trace.perField.t = "list" /\ trace.perField.items # <<>>
    THEN [trace EXCEPT !.perField.items[idx] = field_copy]
    ELSE [trace EXCEPT !.fields.items[idx] = field_copy]

CallerTraceAfter(trace, idx, field_copy) == trace

OthersUnchanged ==
    UNCHANGED <<pc, pass, turns, per_field_raw, k, sanitized_fields, per_field_report,
                invalid_evidence_count, fixed_offset_count, sanitized_trace,
                sanitize_report, first_trace, first_report, rendered, missing, game, viewer>>

CallBy(c) ==
    /\ callers[c].pc = "idle"
    /\ ~TraceRaises(extraction_trace)
    /\ callers' = [callers EXCEPT ![c].turns = _extract_turns(extraction_trace),
                                  ![c].pc = "loop"]
    /\ UNCHANGED extraction_trace
    /\ OthersUnchanged

CallRaisesBy(c) ==
    /\ callers[c].pc = "idle"
    /\ TraceRaises(extraction_trace)
    /\ callers' = [callers EXCEPT ![c].pc = "raised"]
    /\ UNCHANGED extraction_trace
    /\ OthersUnchanged

SanitizeFieldBy(c) ==
    LET me == callers[c]
        claims == PerFieldRaw(extraction_trace)
    IN /\ me.pc = "loop"
       /\ me.k < Len(claims)
       /\ LET field == claims[me.k + 1]
              turn_text == TurnTextOf(field, me.turns)
              repair == Repair(field, turn_text)
          IN /\ ~ClaimRaises(field)
             /\ ~SnippetRaises(RequestedSnippet(field), turn_text)
             /\ callers' =
                    [callers EXCEPT
                        ![c].invalid_evidence_count =
                            IF turn_text.t = "none" THEN @ + 1 ELSE @,
                        ![c].fixed_offset_count = IF repair.fixed THEN @ + 1 ELSE @,
                        ![c].per_field_report =
                            ListAppend(@, FieldReport(field, turn_text, repair)),
                        ![c].sanitized_fields = ListAppend(@, FieldCopy(field, repair)),
                        ![c].k = @ + 1]
             /\ extraction_trace' =
                    CallerTraceAfter(extraction_trace, me.k + 1, FieldCopy(field, repair))
       /\ OthersUnchanged

SanitizeFieldRaisesBy(c) ==
    LET me == callers[c]
        claims == PerFieldRaw(extraction_trace)
    IN /\ me.pc = "loop"
       /\ me.k < Len(claims)
       /\ LET field == claims[me.k + 1]
          IN \/ ClaimRaises(field)
             \/ SnippetRaises(RequestedSnippet(field), TurnTextOf(field, me.turns))
       /\ callers' = [callers EXCEPT ![c].pc = "raised"]
       /\ UNCHANGED extraction_trace
       /\ OthersUnchanged

ReturnBy(c) ==
    LET me == callers[c]
    IN /\ me.pc = "loop"
       /\ me.k = Len(PerFieldRaw(extraction_trace))
       /\ callers' =
              [callers EXCEPT
                  ![c].sanitized_trace =
                      [turns |-> [j \in 1..Len(me.turns) |-> TextTurn(me.turns[j])],
                       perField |-> me.sanitized_fields],
                  ![c].sanitize_report =
                      [invalidEvidenceCount |-> me.invalid_evidence_count,
                       fixedOffsetCount |-> me.fixed_offset_count,
                       perField |-> me.per_field_report],
                  ![c].pc = "done"]
       /\ UNCHANGED extraction_trace
       /\ OthersUnchanged

NextConcurrent ==
    \E c \in CallerIds :
        \/ CallBy(c)
        \/ CallRaisesBy(c)
        \/ SanitizeFieldBy(c)
        \/ SanitizeFieldRaisesBy(c)
        \/ ReturnBy(c)

\* the caller passes the returned report to format_sanitize_report
Format ==
    /\ pc = "done"
    /\ rendered' = format_sanitize_report(sanitize_report)
    /\ pc' = "formatted"
    /\ UNCHANGED <<pass, extraction_trace, turns, per_field_raw, k, sanitized_fields,
                   per_field_report, invalid_evidence_count, fixed_offset_count,
                   sanitized_trace, sanitize_report, first_trace, first_report,
                   callers, missing, game, viewer>>

NextFormat ==
    Call \/ CallRaises \/ SanitizeField \/ SanitizeFieldRaises \/ Return \/ Format

\* the viewer loads the bundle written from the returned trace and report
\* (trace_final = {"extractionTrace": sanitized_trace}) and counts
ComputeMissing ==
    /\ pc = "done"
    /\ missing' = _compute_missing_count(sanitized_trace, sanitize_report)
    /\ pc' = "counted"
    /\ UNCHANGED <<pass, extraction_trace, turns, per_field_raw, k, sanitized_fields,
                   per_field_report, invalid_evidence_count, fixed_offset_count,
                   sanitized_trace, sanitize_report, first_trace, first_report,
                   callers, rendered, game, viewer>>

NextViewer ==
    Call \/ CallRaises \/ SanitizeField \/ SanitizeFieldRaises \/ Return \/ ComputeMissing

\* the game starts: the sanitizer is not in use
InitGame ==
    /\ extraction_trace = NonMapping("none")
    /\ SanitizerIdle
    /\ game \in {GameStart(fresh) : fresh \in create_targets}
    /\ viewer = NoViewer

SanitizerUnchanged ==
    UNCHANGED <<pc, pass, extraction_trace, turns, per_field_raw, k, sanitized_fields,
                per_field_report, invalid_evidence_count, fixed_offset_count,
                sanitized_trace, sanitize_report, first_trace, first_report,
                callers, rendered, missing, viewer>>

\* One iteration of the loop of main() (lines 184-278) that gets its frame:
\* the hand is pinching or not, dt ticks have passed since the last frame,
\* the slash sweeps `sweep` cells, the targets that are hit respawn as
\* `respawned` says, and `key` is down when the frame has been shown.
Frame ==
    /\ game.running
    /\ \E pinch_now \in BOOLEAN, dt \in 0..1, key \in Keys :
       \E now \in {game.now + dt}, d \in {Debounce(game, pinch_now)} :
       \E remaining \in {Remaining(now, game.start_time)} :
       \E slashing \in {d.pinch_on /\ remaining > 0} :
       \E moved \in {IF remaining > 0
                     THEN [idx \in 1..Len(game.targets) |-> move(game.targets[idx])]
                     ELSE game.targets} :
        /\ now <= MaxTime
        /\ d.hold_counter <= MaxCount
        /\ d.release_counter <= MaxCount
        /\ key = "r" => game.created < MaxRounds
        /\ \E sweep \in (IF slashing THEN 0..SlashCells ELSE {0}) :
           \E slash \in {IF slashing THEN slash_line(HandCell, sweep)
                                     ELSE <<HandCell, HandCell>>} :
           \E hits \in {IF slashing THEN check_hits(moved, slash[1], slash[2]) ELSE {}} :
            /\ game.score + ScoreGain(hits) <= SCORE_PER_HIT * MaxHits
            /\ \E respawned \in [hits -> Spawns] :
               \E shown \in {[game EXCEPT
                        !.now = now,
                        !.hold_counter = d.hold_counter,
                        !.release_counter = d.release_counter,
                        !.pinch_on = d.pinch_on,
                        !.score = game.score + ScoreGain(hits),
                        !.targets = [idx \in 1..Len(moved) |->
                            IF idx \in hits THEN respawned[idx] ELSE moved[idx]],
                        !.pinch_now = pinch_now,
                        !.remaining = remaining,
                        !.slashing = slashing,
                        !.hits = Cardinality(hits),
                        !.key = key,
                        !.run = IF game.run > 0 /\ pinch_now = game.pinch_now
                                THEN Min(MaxCount, game.run + 1) ELSE 1]} :
                CASE key = "q" -> game' = [shown EXCEPT !.running = FALSE]
                  [] key = "r" -> \E fresh \in create_targets :
                                    game' = Restart(shown, fresh)
                  [] OTHER -> game' = shown
    /\ SanitizerUnchanged

\* cap.read() gives no frame: the loop ends (lines 185-188)
FrameGrabFails ==
    /\ game.running
    /\ game' = [game EXCEPT !.running = FALSE]
    /\ SanitizerUnchanged

NextGame == Frame \/ FrameGrabFails

\* the server starts: no sanitizer call, no game
InitViewer ==
    /\ extraction_trace = NonMapping("none")
    /\ SanitizerIdle
    /\ game = NoGame
    /\ viewer \in {ViewerStart(env, notes) : env \in Environments, notes \in NotesFiles}

OthersUnchangedByViewer ==
    UNCHANGED <<pc, pass, extraction_trace, turns, per_field_raw, k, sanitized_fields,
                per_field_report, invalid_evidence_count, fixed_offset_count,
                sanitized_trace, sanitize_report, first_trace, first_report,
                callers, rendered, missing, game>>

\* A thread takes a request and runs do_GET or do_POST up to its answer, or,
\* for a note that passes the checks, up to the call of _ensure_notes_file
\* (lines 1117-1139 and 299-303).  A probe plan that passes the checks is
\* appended to the queue file and answered here.
Serve(h) ==
    /\ viewer.handlers[h].pc = "idle"
    /\ viewer.clock <= MaxRequests
    /\ \E request \in Requests :
       \E status \in {IF request.route = "GET /api/dev/trace-bundle/download"
                      THEN do_GET_status(viewer.env, request)
                      ELSE do_POST_status(viewer.env, request)} :
        viewer' =
            IF status = OK /\ request.route = "POST /dev/logs/api/note"
            THEN [viewer EXCEPT
                    !.clock = viewer.clock + 1,
                    !.handlers[h] = [pc |-> "ensure", request |-> request,
                                     timestamp |-> viewer.clock, lines |-> <<>>]]
            ELSE IF status = OK /\ request.route = "POST /dev/logs/api/probe-plan"
            THEN [viewer EXCEPT
                    !.clock = viewer.clock + 1,
                    !.queue = _enqueue_probe_plan(viewer.queue, request.requestId,
                                                  request.text, viewer.clock),
                    !.last = [request |-> request, status |-> OK]]
            ELSE [viewer EXCEPT
                    !.clock = viewer.clock + 1,
                    !.last = [request |-> request, status |-> status]]
    /\ OthersUnchangedByViewer

\* _ensure_notes_file, line 287: does the notes file exist?
EnsureNotesFile(h) ==
    /\ viewer.handlers[h].pc = "ensure"
    /\ viewer' = [viewer EXCEPT !.handlers[h].pc =
                    IF viewer.notes.exists THEN "read" ELSE "create"]
    /\ OthersUnchangedByViewer

\* _ensure_notes_file, lines 288-289: write the title into a new notes file
CreateNotesFile(h) ==
    /\ viewer.handlers[h].pc = "create"
    /\ viewer' = [viewer EXCEPT
                    !.notes = [exists |-> TRUE, lines |-> <<TitleLine, BlankLine>>],
                    !.handlers[h].pc = "read"]
    /\ OthersUnchangedByViewer

\* _ensure_notes_file, line 290: read the file into `lines`
ReadNotesFile(h) ==
    /\ viewer.handlers[h].pc = "read"
    /\ viewer' = [viewer EXCEPT
                    !.handlers[h].lines = viewer.notes.lines,
                    !.handlers[h].pc = "loaded"]
    /\ OthersUnchangedByViewer

\* _append_note_for_request, lines 308-320, and the answer of do_POST: the
\* entry is put into the thread's `lines`, the file is written from them
WriteNotesFile(h) ==
    /\ viewer.handlers[h].pc = "loaded"
    /\ \E mine \in {viewer.handlers[h]} :
        viewer' = [viewer EXCEPT
            !.notes = [exists |-> TRUE,
                       lines |-> Rstrip(WithEntry(mine.lines,
                                    HeaderLine(mine.request.requestId),
                                    EntryLine(mine.timestamp, mine.request.text)))],
            !.saved = viewer.saved \cup
                        {[id |-> mine.request.requestId, timestamp |-> mine.timestamp]},
            !.last = [request |-> mine.request, status |-> OK],
            !.handlers[h] = IdleHandler]
    /\ OthersUnchangedByViewer

NextViewerServer ==
    \E h \in Handlers :
        \/ Serve(h)
        \/ EnsureNotesFile(h)
        \/ CreateNotesFile(h)
        \/ ReadNotesFile(h)
        \/ WriteNotesFile(h)

Next == Call \/ CallRaises \/ SanitizeField \/ SanitizeFieldRaises \/ Return \/ Feedback

Spec == Init /\ [][Next]_vars

SpecField == InitField /\ [][Next]_vars

SpecPreview == InitPreview /\ [][Next]_vars

SpecConcurrent == Init /\ [][NextConcurrent]_vars

SpecLookup == InitLookup /\ [][Next]_vars

SpecFormat == InitFormat /\ [][NextFormat]_vars

SpecViewer == Init /\ [][NextViewer]_vars

SpecGame == InitGame /\ [][NextGame]_vars

SpecViewerServer == InitViewer /\ [][NextViewerServer]_vars

TypeOK ==
    /\ pc \in {"idle", "loop", "done", "raised", "formatted", "counted"}
    /\ pass \in {1, 2}
    /\ k \in 0..Len(per_field_raw)

----------------------------------------------------------------------------
\* Vocabulary of the properties.  The claims processed so far are the first
\* Len(per_field_report) entries of per_field_raw; entry i of per_field_report
\* and of sanitized_fields are the outputs for claim i.

Processed == 1..Len(per_field_report)

ClaimAt(i) == per_field_raw[i]
ReportAt(i) == per_field_report[i]
CopyAt(i) == sanitized_fields[i]

\* an integer in Python's sense (True and False are the integers 1 and 0)
IsInteger(v) == v.t \in {"int", "bool"}

IsNumber(v) == v.t \in {"int", "bool", "float"}

\* twice the number a value stands for
Twice(v) == IF v.t = "float" THEN 2 * v.n + 1 ELSE 2 * v.n

\* the claim's turnIndex is an integer in [0, len(turns))
IndexInRange(c) == IsInteger(c.turnIndex) /\ c.turnIndex.n \in 0..(Len(turns) - 1)

ClaimedText(c) == turns[c.turnIndex.n + 1]

\* empty string, 0, false, absent
Falsy(v) ==
    \/ v.t \in {"absent", "none"}
    \/ v.t = "str" /\ v.s = <<>>
    \/ v.t \in {"int", "bool"} /\ v.n = 0

\* the snippet of a claim: the first non-empty one of its three keys
SnippetOf(c) ==
    IF ~Falsy(c.requestedSnippet) THEN c.requestedSnippet
    ELSE IF ~Falsy(c.snippet) THEN c.snippet
    ELSE c.evidence

\* the name of a claim: the first non-empty one of its three keys, else ""
NameOf(c) ==
    IF ~Falsy(c.field) THEN c.field
    ELSE IF ~Falsy(c.name) THEN c.name
    ELSE IF ~Falsy(c.path) THEN c.path
    ELSE PyStr(<<>>)

SnippetRequested(c) == ~Falsy(SnippetOf(c))

\* a requested snippet that is a substring of the claimed turn's text
SnippetOccurs(c) ==
    SnippetRequested(c) /\ SnippetOf(c).t = "str" /\ Contains(SnippetOf(c).s, ClaimedText(c))

\* a value, not falsy, whose text is a substring of the claimed turn's text
ValueOccurs(c) == ~Falsy(c.value) /\ Contains(ToStr(c.value), ClaimedText(c))

\* an offset of claim i was changed by clamping: a value written to the copy
\* differs from the value it was clamped from
OffsetRepaired(i) ==
    LET c == ClaimAt(i)
        from_start == IF IsInteger(c.startChar) THEN c.startChar.n ELSE 0
        from_end == IF IsInteger(c.endChar) THEN c.endChar.n ELSE Len(ClaimedText(c))
    IN /\ IsInteger(c.startChar) \/ IsInteger(c.endChar)
       /\ CopyAt(i).startChar.n # from_start \/ CopyAt(i).endChar.n # from_end

\* what key reads of a claim return for a missing key
Read(v) == IF v.t = "absent" THEN None ELSE v

----------------------------------------------------------------------------
\* C1: when the call returns, sanitizedTrace.perField and
\* sanitizeReport.perField have as many entries as the input claim list, and
\* entry i of each comes from input claim i: same name keys, same turnIndex.
C1_NoClaimDiscardedOrReordered ==
    pc = "done" =>
        LET inp == extraction_trace.perField.items
            out == sanitized_trace.perField
            rpt == sanitize_report.perField
        IN /\ Len(out) = Len(inp)
           /\ Len(rpt) = Len(inp)
           /\ \A i \in 1..Len(inp) :
                  /\ out[i].field = inp[i].field
                  /\ out[i].name = inp[i].name
                  /\ out[i].turnIndex = inp[i].turnIndex
                  /\ rpt[i].field = NameOf(inp[i])
                  /\ rpt[i].turnIndex = Read(inp[i].turnIndex)

\* a returned call on two claims of different name and different turnIndex
C1_Witness ==
    /\ pc = "done"
    /\ pass = 1
    /\ Len(sanitized_trace.perField) = 2
    /\ sanitize_report.perField[1].field # sanitize_report.perField[2].field
    /\ sanitized_trace.perField[1].turnIndex # sanitized_trace.perField[2].turnIndex

\* C2: the reason of a claim is invalid_turnIndex exactly when its turnIndex
\* is not an integer in [0, len(turns)), and invalid_evidence_count counts
\* exactly those claims (one increment for each).
C2_InvalidTurnIndexIff ==
    /\ \A i \in Processed :
           (ReportAt(i).reason = "invalid_turnIndex") <=> ~IndexInRange(ClaimAt(i))
    /\ invalid_evidence_count = Cardinality({i \in Processed : ~IndexInRange(ClaimAt(i))})

\* a claim on turn index len(turns) = 2, reported invalid and counted once
C2_Witness ==
    /\ pc = "done"
    /\ Len(turns) = 2
    /\ Len(per_field_raw) = 1
    /\ ClaimAt(1).turnIndex = PyInt(2)
    /\ sanitize_report.perField[1].reason = "invalid_turnIndex"
    /\ sanitize_report.invalidEvidenceCount = 1

\* C3: for every claim on a valid turn, whatever startChar and endChar the
\* input carries, every offset of the sanitized copy is a number with
\* 0 <= startChar <= endChar <= len(turnText).
C3_OffsetsWithinTurnText ==
    \A i \in Processed :
        IndexInRange(ClaimAt(i)) =>
            LET st == CopyAt(i).startChar
                en == CopyAt(i).endChar
                twiceLen == 2 * Len(ClaimedText(ClaimAt(i)))
            IN /\ st.t # "absent" => IsNumber(st) /\ 0 <= Twice(st) /\ Twice(st) <= twiceLen
               /\ en.t # "absent" => IsNumber(en) /\ 0 <= Twice(en) /\ Twice(en) <= twiceLen
               /\ (st.t # "absent" /\ en.t # "absent") => Twice(st) <= Twice(en)

\* C4: a claim with an invalid turnIndex keeps the startChar and endChar of
\* the input (absent stays absent), is never counted in fixed_offset_count, and
\* is reported invalid_turnIndex with matchedBy none.
C4_InvalidTurnLeftUntouched ==
    /\ \A i \in Processed :
           ~IndexInRange(ClaimAt(i)) =>
               /\ CopyAt(i).startChar = ClaimAt(i).startChar
               /\ CopyAt(i).endChar = ClaimAt(i).endChar
               /\ ReportAt(i).reason = "invalid_turnIndex"
               /\ ReportAt(i).matchedBy = "none"
    /\ fixed_offset_count <= Cardinality({i \in Processed : IndexInRange(ClaimAt(i))})

\* an invalid claim with out-of-range offsets whose snippet and value occur in
\* a turn of the trace
C4_Witness ==
    /\ pc = "done"
    /\ pass = 1
    /\ Len(per_field_raw) = 1
    /\ ~IndexInRange(ClaimAt(1))
    /\ ClaimAt(1).startChar = PyInt(0 - 1)
    /\ ClaimAt(1).endChar = PyInt(MaxOffset)
    /\ \E j \in 1..Len(turns) :
           /\ SnippetOf(ClaimAt(1)).t = "str"
           /\ SnippetOf(ClaimAt(1)).s # <<>>
           /\ Contains(SnippetOf(ClaimAt(1)).s, turns[j])
           /\ ~Falsy(ClaimAt(1).value)
           /\ Contains(ToStr(ClaimAt(1).value), turns[j])
    /\ sanitize_report.fixedOffsetCount = 0

\* C5: sanitizing the sanitized trace again returns the same turns and, for
\* every claim, the same startChar and endChar as the first pass.
C5_RepairIdempotent ==
    (pc = "done" /\ pass = 2) =>
        /\ sanitized_trace.turns = first_trace.turns
        /\ Len(sanitized_trace.perField) = Len(first_trace.perField)
        /\ \A i \in 1..Len(first_trace.perField) :
               /\ sanitized_trace.perField[i].startChar = first_trace.perField[i].startChar
               /\ sanitized_trace.perField[i].endChar = first_trace.perField[i].endChar

\* a second pass over a trace whose first pass repaired an offset on a
\* non-empty turn
C5_Witness ==
    /\ pc = "done"
    /\ pass = 2
    /\ first_report.fixedOffsetCount = 1
    /\ Len(sanitized_trace.perField) = 1
    /\ IndexInRange(ClaimAt(1))
    /\ ClaimedText(ClaimAt(1)) # <<>>

\* C6: on a valid turn, when the requested snippet and the value both occur
\* in the turn text, matchedBy is snippet and, with no offset repaired, the
\* reason is ok.
C6_SnippetBeforeValue ==
    \A i \in Processed :
        (IndexInRange(ClaimAt(i)) /\ SnippetOccurs(ClaimAt(i)) /\ ValueOccurs(ClaimAt(i))) =>
            /\ ReportAt(i).matchedBy = "snippet"
            /\ ~OffsetRepaired(i) => ReportAt(i).reason = "ok"

\* snippet and value both found, offsets in range and left as they are
C6_Witness ==
    /\ pc = "done"
    /\ Len(per_field_raw) = 1
    /\ IndexInRange(ClaimAt(1))
    /\ SnippetOccurs(ClaimAt(1))
    /\ ValueOccurs(ClaimAt(1))
    /\ IsInteger(ClaimAt(1).startChar)
    /\ IsInteger(ClaimAt(1).endChar)
    /\ ~OffsetRepaired(1)
    /\ sanitize_report.perField[1].reason = "ok"

\* C7: on a valid turn, a claim with an offset changed by clamping is counted
\* once in fixed_offset_count and its reason is offset_fixed whatever the
\* matching finds; matchedBy is what the matching finds.
C7_OffsetFixedPriority ==
    /\ \A i \in Processed :
           (IndexInRange(ClaimAt(i)) /\ OffsetRepaired(i)) =>
               /\ ReportAt(i).reason = "offset_fixed"
               /\ ReportAt(i).matchedBy =
                      IF SnippetOccurs(ClaimAt(i)) THEN "snippet"
                      ELSE IF ValueOccurs(ClaimAt(i)) THEN "value"
                      ELSE "none"
    /\ fixed_offset_count =
           Cardinality({i \in Processed : IndexInRange(ClaimAt(i)) /\ OffsetRepaired(i)})

\* a repaired claim whose snippet is requested and missing while its value
\* is found
C7_Witness ==
    /\ pc = "done"
    /\ Len(per_field_raw) = 1
    /\ IndexInRange(ClaimAt(1))
    /\ OffsetRepaired(1)
    /\ SnippetRequested(ClaimAt(1))
    /\ ~SnippetOccurs(ClaimAt(1))
    /\ ValueOccurs(ClaimAt(1))
    /\ sanitize_report.fixedOffsetCount = 1

\* C8: on a valid turn, a requested snippet that is not a substring of the
\* turn text gives reason snippet_not_found (offset_fixed when an offset was
\* repaired) and matchedBy value when the value occurs in the text, else none.
C8_SnippetNotFound ==
    \A i \in Processed :
        (IndexInRange(ClaimAt(i)) /\ SnippetRequested(ClaimAt(i)) /\ ~SnippetOccurs(ClaimAt(i))) =>
            /\ ReportAt(i).reason =
                   IF OffsetRepaired(i) THEN "offset_fixed" ELSE "snippet_not_found"
            /\ ReportAt(i).matchedBy = IF ValueOccurs(ClaimAt(i)) THEN "value" ELSE "none"

\* a missing snippet with a found value and no repair
C8_Witness ==
    /\ pc = "done"
    /\ Len(per_field_raw) = 1
    /\ IndexInRange(ClaimAt(1))
    /\ SnippetRequested(ClaimAt(1))
    /\ ~SnippetOccurs(ClaimAt(1))
    /\ ValueOccurs(ClaimAt(1))
    /\ ~OffsetRepaired(1)
    /\ sanitize_report.perField[1].reason = "snippet_not_found"
    /\ sanitize_report.perField[1].matchedBy = "value"

\* C9: on a valid turn, with no snippet requested: a value that occurs in the
\* turn text gives matchedBy value and reason ok, otherwise matchedBy none and
\* reason value_not_found; the reason is offset_fixed when an offset was
\* repaired.
C9_NoSnippetRequested ==
    \A i \in Processed :
        (IndexInRange(ClaimAt(i)) /\ ~SnippetRequested(ClaimAt(i))) =>
            /\ ReportAt(i).matchedBy = IF ValueOccurs(ClaimAt(i)) THEN "value" ELSE "none"
            /\ ReportAt(i).reason =
                   IF OffsetRepaired(i) THEN "offset_fixed"
                   ELSE IF ValueOccurs(ClaimAt(i)) THEN "ok"
                   ELSE "value_not_found"

\* no snippet and a number as value, found through its text
C9_Witness ==
    /\ pc = "done"
    /\ Len(per_field_raw) = 1
    /\ IndexInRange(ClaimAt(1))
    /\ ~SnippetRequested(ClaimAt(1))
    /\ ClaimAt(1).value = PyInt(1)
    /\ ~OffsetRepaired(1)
    /\ sanitize_report.perField[1].reason = "ok"
    /\ sanitize_report.perField[1].matchedBy = "value"

\* C10: a falsy snippet never gives matchedBy snippet and a falsy value never
\* gives matchedBy value, whatever the turn text.
C10_FalsyNeverMatches ==
    \A i \in Processed :
        /\ ~SnippetRequested(ClaimAt(i)) => ReportAt(i).matchedBy # "snippet"
        /\ Falsy(ClaimAt(i).value) => ReportAt(i).matchedBy # "value"

\* the value 0 on a turn whose text contains "0", with an empty snippet
C10_Witness ==
    /\ pc = "done"
    /\ Len(per_field_raw) = 1
    /\ IndexInRange(ClaimAt(1))
    /\ ClaimAt(1).requestedSnippet = PyStr(<<>>)
    /\ ClaimAt(1).value = PyInt(0)
    /\ Contains(<<"0">>, ClaimedText(ClaimAt(1)))
    /\ sanitize_report.perField[1].matchedBy = "none"

\* C11: a call on a mapping never raises, whatever its claims are: missing
\* keys, members of the wrong type, items that are not mappings.
C11_MalformedClaimsNeverRaise ==
    extraction_trace.t = "dict" => pc # "raised"

\* C12: a call on an argument that is not a mapping does not raise and
\* returns the empty trace and the empty report.
C12_NonMappingGivesEmptyResult ==
    extraction_trace.t # "dict" =>
        /\ pc # "raised"
        /\ pc = "done" => (sanitized_trace = NoTrace /\ sanitize_report = NoReport)

----------------------------------------------------------------------------
\* Vocabulary of the preview properties

\* every whitespace run replaced by one space
CollapseRuns(chars) ==
    LET RunStart(j) == IsSpace(chars[j]) /\ (j = 1 \/ ~IsSpace(chars[j - 1]))
        Stays(j) == ~IsSpace(chars[j]) \/ RunStart(j)
        kept == SelectSeq([j \in 1..Len(chars) |-> j], Stays)
    IN [m \in 1..Len(kept) |-> IF IsSpace(chars[kept[m]]) THEN " " ELSE chars[kept[m]]]

\* a collapsed string without its leading and its trailing space
Trimmed(chars) ==
    LET from == IF chars # <<>> /\ chars[1] = " " THEN 2 ELSE 1
        to == IF Len(chars) >= from /\ chars[Len(chars)] = " " THEN Len(chars) - 1
              ELSE Len(chars)
    IN SubSeq(chars, from, to)

Ellipsis == <<".", ".", ".">>

\* at most 120 characters as they are, else the first 117 and an ellipsis
Capped(chars) ==
    IF Len(chars) <= 120 THEN chars ELSE SubSeq(chars, 1, 117) \o Ellipsis

\* the <<source, preview>> pairs of report i whose source is a string
StringPreviews(i) ==
    LET c == ClaimAt(i)
        r == ReportAt(i)
    IN {<<ClaimedText(c), r.turnTextPreview>> : x \in {1} \cap {IF IndexInRange(c) THEN 1 ELSE 0}}
       \cup {<<SnippetOf(c).s, r.snippetPreview>> : x \in {1} \cap {IF SnippetOf(c).t = "str" THEN 1 ELSE 0}}
       \cup {<<c.value.s, r.valuePreview>> : x \in {1} \cap {IF c.value.t = "str" THEN 1 ELSE 0}}

AllPreviews(i) ==
    {ReportAt(i).turnTextPreview, ReportAt(i).snippetPreview, ReportAt(i).valuePreview}

EndsInEllipsis(chars) ==
    Len(chars) >= 3 /\ SubSeq(chars, Len(chars) - 2, Len(chars)) = Ellipsis

\* C13 as stated: the preview of every string longer than 120 characters has
\* exactly 120 characters and ends in "...".
C13_LongStringPreview ==
    \A i \in Processed : \A p \in StringPreviews(i) :
        Len(p[1]) > 120 => (Len(p[2]) = 120 /\ EndsInEllipsis(p[2]))

\* C13 amended: the preview of every string whose form with whitespace runs
\* collapsed and outer whitespace removed is longer than 120 characters has
\* exactly 120 characters and ends in "...".
C13_LongCollapsedPreview ==
    \A i \in Processed : \A p \in StringPreviews(i) :
        Len(Trimmed(CollapseRuns(p[1]))) > 120 => (Len(p[2]) = 120 /\ EndsInEllipsis(p[2]))

\* a turn text with a whitespace run that is still longer than 120 characters
\* once collapsed
C13_Witness ==
    /\ pc = "done"
    /\ Len(per_field_raw) = 1
    /\ IndexInRange(ClaimAt(1))
    /\ \E j \in 1..Len(turns[1]) : IsSpace(turns[1][j])
    /\ Len(Trimmed(CollapseRuns(turns[1]))) > 120
    /\ Len(sanitize_report.perField[1].turnTextPreview) = 120

\* C14 as stated: every preview of a string is the string with every
\* whitespace run collapsed to one space, capped at 120 characters; no preview
\* is longer than 120 characters; an empty or None source has the empty
\* preview.
C14_PreviewRuleCollapseOnly ==
    \A i \in Processed :
        /\ \A p \in StringPreviews(i) : p[2] = Capped(CollapseRuns(p[1]))
        /\ \A pv \in AllPreviews(i) : Len(pv) <= 120
        /\ ~IndexInRange(ClaimAt(i)) => ReportAt(i).turnTextPreview = <<>>
        /\ Falsy(SnippetOf(ClaimAt(i))) => ReportAt(i).snippetPreview = <<>>
        /\ Falsy(ClaimAt(i).value) => ReportAt(i).valuePreview = <<>>

\* C14 amended: every preview of a string is the string with every whitespace
\* run collapsed to one space and leading and trailing whitespace removed,
\* capped at 120 characters; no preview is longer than 120 characters; an
\* empty or None source has the empty preview.
C14_PreviewRule ==
    \A i \in Processed :
        /\ \A p \in StringPreviews(i) : p[2] = Capped(Trimmed(CollapseRuns(p[1])))
        /\ \A pv \in AllPreviews(i) : Len(pv) <= 120
        /\ ~IndexInRange(ClaimAt(i)) => ReportAt(i).turnTextPreview = <<>>
        /\ Falsy(SnippetOf(ClaimAt(i))) => ReportAt(i).snippetPreview = <<>>
        /\ Falsy(ClaimAt(i).value) => ReportAt(i).valuePreview = <<>>

\* a claim on an invalid turn whose value is a long string with a whitespace
\* run: empty turn text preview, capped value preview
C14_Witness ==
    /\ pc = "done"
    /\ Len(per_field_raw) = 1
    /\ ~IndexInRange(ClaimAt(1))
    /\ ClaimAt(1).value.t = "str"
    /\ Len(Trimmed(CollapseRuns(ClaimAt(1).value.s))) > 120
    /\ \E j \in 1..Len(ClaimAt(1).value.s) : IsSpace(ClaimAt(1).value.s[j])
    /\ sanitize_report.perField[1].turnTextPreview = <<>>
    /\ EndsInEllipsis(sanitize_report.perField[1].valuePreview)

----------------------------------------------------------------------------
\* Vocabulary of the frame properties

OffsetKeys == {"startChar", "endChar"}

\* C15: every attribute of a sanitized copy other than startChar and endChar
\* equals the attribute of the input claim, and the copy has the attributes
\* of the claim, no more and no fewer; the returned trace carries these copies.
C15_AttributesPassThrough ==
    /\ \A i \in Processed :
           /\ DOMAIN CopyAt(i) = DOMAIN ClaimAt(i)
           /\ \A key \in DOMAIN ClaimAt(i) \ OffsetKeys : CopyAt(i)[key] = ClaimAt(i)[key]
    /\ pc = "done" =>
           /\ Len(sanitized_trace.perField) = Len(per_field_raw)
           /\ \A i \in 1..Len(per_field_raw) :
                  \A key \in DOMAIN ClaimAt(i) \ OffsetKeys :
                      sanitized_trace.perField[i][key] = ClaimAt(i)[key]

\* a returned trace of two claims, one named by "name" with its snippet under
\* "snippet", whose offsets were repaired
C15_Witness ==
    /\ pc = "done"
    /\ Len(per_field_raw) = 2
    /\ \E i \in 1..2 :
           /\ ClaimAt(i).name.t = "str"
           /\ ClaimAt(i).snippet.t = "str"
           /\ sanitized_trace.perField[i].startChar # ClaimAt(i).startChar
           /\ sanitized_trace.perField[i].snippet = ClaimAt(i).snippet

----------------------------------------------------------------------------
\* Vocabulary of the concurrency property: the outcome of a call that runs
\* alone on a trace

AloneTurns(trace) == _extract_turns(trace)

AloneClaims(trace) == PerFieldRaw(trace)

AloneRaisesAt(trace, i) ==
    LET field == AloneClaims(trace)[i]
    IN \/ ClaimRaises(field)
       \/ SnippetRaises(RequestedSnippet(field), TurnTextOf(field, AloneTurns(trace)))

AloneRaises(trace) ==
    \/ TraceRaises(trace)
    \/ \E i \in 1..Len(AloneClaims(trace)) : AloneRaisesAt(trace, i)

AloneTrace(trace) ==
    LET claims == AloneClaims(trace)
        tl == AloneTurns(trace)
    IN [turns |-> [j \in 1..Len(tl) |-> TextTurn(tl[j])],
        perField |-> [i \in 1..Len(claims) |->
                         FieldCopy(claims[i], Repair(claims[i], TurnTextOf(claims[i], tl)))]]

AloneReport(trace) ==
    LET claims == AloneClaims(trace)
        tl == AloneTurns(trace)
        all == 1..Len(claims)
    IN [invalidEvidenceCount |->
            Cardinality({i \in all : TurnTextOf(claims[i], tl).t = "none"}),
        fixedOffsetCount |->
            Cardinality({i \in all : Repair(claims[i], TurnTextOf(claims[i], tl)).fixed}),
        perField |-> [i \in all |->
                         FieldReport(claims[i], TurnTextOf(claims[i], tl),
                                     Repair(claims[i], TurnTextOf(claims[i], tl)))]]

\* C16: under every interleaving of several calls on one argument, a call
\* returns what it returns when it runs alone on that argument, raises only
\* if it raises alone, and the argument stays as it was given.
C16_ConcurrentCallsIndependent ==
    \A c \in CallerIds :
        /\ extraction_trace = callers[c].given
        /\ callers[c].pc = "raised" => AloneRaises(callers[c].given)
        /\ callers[c].pc = "done" =>
               /\ ~AloneRaises(callers[c].given)
               /\ callers[c].sanitized_trace = AloneTrace(callers[c].given)
               /\ callers[c].sanitize_report = AloneReport(callers[c].given)

\* two calls on a trace with a claim whose offsets are repaired: one has
\* returned while the other is still in its loop, past that claim
C16_Witness ==
    \E c, d \in CallerIds :
        /\ c # d
        /\ callers[c].pc = "done"
        /\ callers[d].pc = "loop"
        /\ callers[d].k >= 1
        /\ callers[c].sanitize_report.fixedOffsetCount >= 1
        /\ callers[d].fixed_offset_count >= 1

----------------------------------------------------------------------------
\* Vocabulary of the lookup properties

TurnKeys == <<"turns", "conversation", "conversationTurns", "turnTexts">>

TextKeys == <<"text", "content", "turnText", "message">>

Started == pc \in {"loop", "done"}

\* the first of the indexes 1..4 that satisfies Has, if any, as a set
FirstOf(Has(_)) == {i \in 1..4 : Has(i) /\ \A j \in 1..(i - 1) : ~Has(j)}

KeyPresent(i) == extraction_trace[TurnKeys[i]].t # "absent"

KeyHoldsList(i) == extraction_trace[TurnKeys[i]].t = "list"

\* the turn items under key i of the input
ItemsUnder(i) == extraction_trace[TurnKeys[i]].items

\* the turn items the call works on
TurnItems ==
    IF FirstOf(KeyHoldsList) = {} THEN <<>>
    ELSE ItemsUnder(CHOOSE i \in FirstOf(KeyHoldsList) : TRUE)

AllInvalidTurnIndex == \A i \in Processed : ReportAt(i).reason = "invalid_turnIndex"

\* C17 as stated: the turns are those of the first key present on the input
\* in the order turns, conversation, conversationTurns, turnTexts; with no key
\* present there are no turns and every claim is invalid_turnIndex.
C17_FirstPresentKey ==
    Started =>
        /\ \A i \in FirstOf(KeyPresent) : Len(turns) = Len(ItemsUnder(i))
        /\ FirstOf(KeyPresent) = {} => (turns = <<>> /\ AllInvalidTurnIndex)

\* C17 amended: the turns are those of the first key, in the order turns,
\* conversation, conversationTurns, turnTexts, whose value is a list, one text
\* per item; a key that is absent or holds no list is passed over; with no
\* such key there are no turns and every claim is invalid_turnIndex.
C17_FirstListKey ==
    Started =>
        /\ \A i \in FirstOf(KeyHoldsList) : turns = ExtractAll(ItemsUnder(i))
        /\ FirstOf(KeyHoldsList) = {} => (turns = <<>> /\ AllInvalidTurnIndex)

\* a returned call on a trace whose turns key holds None and whose next two
\* keys hold lists: the turn of conversation is used and the claim is valid
C17_Witness ==
    /\ pc = "done"
    /\ extraction_trace.turns.t = "none"
    /\ extraction_trace.conversation.items # <<>>
    /\ extraction_trace.conversationTurns.items # <<>>
    /\ sanitized_trace.turns = <<TextTurn(<<"c">>)>>
    /\ Len(sanitize_report.perField) = 1
    /\ sanitize_report.perField[1].reason # "invalid_turnIndex"

ValueUnder(turn, i) == DictGet(turn[TextKeys[i]])

\* the text of a record by its first populated key, where that holds a string
PopulatedText(turn) ==
    LET Populated(i) == Truthy(ValueUnder(turn, i))
    IN {ValueUnder(turn, i).s : i \in {j \in FirstOf(Populated) : ValueUnder(turn, j).t = "str"}}
           \cup {<<>> : i \in {1} \ {j \in {1} : \E m \in 1..4 : Populated(m)}}

\* the text of a record by its first key that holds a string
StringText(turn) ==
    LET HoldsString(i) == ValueUnder(turn, i).t = "str"
    IN IF FirstOf(HoldsString) = {} THEN <<>>
       ELSE ValueUnder(turn, CHOOSE i \in FirstOf(HoldsString) : TRUE).s

\* the returned trace has one {text} object per turn item, in order
OneTextPerTurn ==
    pc = "done" =>
        /\ Len(sanitized_trace.turns) = Len(TurnItems)
        /\ \A j \in 1..Len(turns) : sanitized_trace.turns[j] = TextTurn(turns[j])

\* C18 as stated: a string turn is used as it is; a record gives the text of
\* its first populated key among text, content, turnText, message; another
\* shape, or a record with none of the keys populated, gives the empty text;
\* the returned trace has one {text} object per turn, in order.
C18_FirstPopulatedKey ==
    Started =>
        /\ Len(turns) = Len(TurnItems)
        /\ \A j \in 1..Len(turns) :
               LET turn == TurnItems[j]
               IN /\ turn.t = "str" => turns[j] = turn.s
                  /\ turn.t = "dict" => \A txt \in PopulatedText(turn) : turns[j] = txt
                  /\ turn.t \notin {"str", "dict"} => turns[j] = <<>>
        /\ OneTextPerTurn

\* C18 amended: a string turn is used as it is; a record gives the value of
\* its first key among text, content, turnText, message that holds a string,
\* the empty string included; another shape, or a record with no string under
\* these keys, gives the empty text; the returned trace has one {text} object
\* per turn, in order.
C18_FirstStringKey ==
    Started =>
        /\ Len(turns) = Len(TurnItems)
        /\ \A j \in 1..Len(turns) :
               LET turn == TurnItems[j]
               IN /\ turn.t = "str" => turns[j] = turn.s
                  /\ turn.t = "dict" => turns[j] = StringText(turn)
                  /\ turn.t \notin {"str", "dict"} => turns[j] = <<>>
        /\ OneTextPerTurn

\* a returned call on two turns, a record with an empty text and a content,
\* then a number
C18_Witness ==
    /\ pc = "done"
    /\ extraction_trace.turns.t = "list"
    /\ Len(extraction_trace.turns.items) = 2
    /\ extraction_trace.turns.items[1].t = "dict"
    /\ extraction_trace.turns.items[1].text = PyStr(<<>>)
    /\ extraction_trace.turns.items[1].content = PyStr(<<"c">>)
    /\ extraction_trace.turns.items[2].t = "int"
    /\ sanitized_trace.turns = <<TextTurn(<<>>), TextTurn(<<>>)>>

\* C19: the claims are those of perField when the input has a perField list,
\* even an empty one, and those of fields only when perField is absent.
C19_PerFieldWinsWhenPresent ==
    Started =>
        /\ extraction_trace.perField.t = "list" =>
               per_field_raw = extraction_trace.perField.items
        /\ extraction_trace.perField.t = "absent" =>
               per_field_raw = extraction_trace.fields.items

----------------------------------------------------------------------------
\* Vocabulary of the report codes

ReasonCode == {"ok", "invalid_turnIndex", "snippet_not_found", "value_not_found",
               "offset_fixed"}

MatchedBy == {"snippet", "value", "none"}

\* C20: in every field report, while the call builds it and in the report it
\* returns, reason is one of the five reason codes and matchedBy is one of
\* snippet, value, none.
C20_CodesInClosedSets ==
    /\ \A i \in Processed :
           ReportAt(i).reason \in ReasonCode /\ ReportAt(i).matchedBy \in MatchedBy
    /\ \A i \in 1..Len(sanitize_report.perField) :
           /\ sanitize_report.perField[i].reason \in ReasonCode
           /\ sanitize_report.perField[i].matchedBy \in MatchedBy

\* a returned report on a claim whose snippet and value both occur in the
\* turn and whose offsets were repaired
C20_Witness ==
    /\ pc = "done"
    /\ Len(sanitize_report.perField) = 1
    /\ Len(per_field_raw) = 1
    /\ IndexInRange(ClaimAt(1))
    /\ SnippetOccurs(ClaimAt(1))
    /\ ValueOccurs(ClaimAt(1))
    /\ sanitize_report.perField[1].reason = "offset_fixed"
    /\ sanitize_report.perField[1].matchedBy = "snippet"

----------------------------------------------------------------------------
\* Vocabulary of the clamping rule

Clamp(x, lo, hi) ==
    LET least == IF x < hi THEN x ELSE hi
    IN IF lo > least THEN lo ELSE least

\* "v or d" for an offset that is an integer or missing
OrDefault(v, d) == IF Falsy(v) THEN d ELSE v.n

\* v for an integer offset, d for a missing one or one that is no integer
IntegerOr(v, d) == IF IsInteger(v) THEN v.n ELSE d

IntegerOrMissing(v) == IsInteger(v) \/ v.t = "absent"

\* C23 as stated, on offsets that are integers or missing: the copy of a
\* valid-turn claim with startChar or endChar present has
\* startChar = clamp(startChar or 0, 0, len) and
\* endChar = clamp(endChar or len, startChar, len).
C23_ClampOrDefault ==
    \A i \in Processed :
        LET c == ClaimAt(i)
        IN (/\ IndexInRange(c)
            /\ IntegerOrMissing(c.startChar) /\ IntegerOrMissing(c.endChar)
            /\ c.startChar.t # "absent" \/ c.endChar.t # "absent") =>
               LET len == Len(ClaimedText(c))
                   start == Clamp(OrDefault(c.startChar, 0), 0, len)
                   end == Clamp(OrDefault(c.endChar, len), start, len)
               IN /\ CopyAt(i).startChar = PyInt(start)
                  /\ CopyAt(i).endChar = PyInt(end)

\* C23 amended: the copy of a valid-turn claim with an integer startChar or
\* endChar has startChar = clamp(s, 0, len) and endChar = clamp(e, startChar,
\* len), where s is startChar if that is an integer and 0 otherwise, and e is
\* endChar if that is an integer (0 included) and len otherwise; both are
\* written to the copy, and the claims counted as fixed are those with a
\* written value that differs from s or e.
C23_ClampIntegerOrMissing ==
    /\ \A i \in Processed :
           LET c == ClaimAt(i)
           IN (IndexInRange(c) /\ (IsInteger(c.startChar) \/ IsInteger(c.endChar))) =>
                  LET len == Len(ClaimedText(c))
                      start == Clamp(IntegerOr(c.startChar, 0), 0, len)
                      end == Clamp(IntegerOr(c.endChar, len), start, len)
                  IN /\ CopyAt(i).startChar = PyInt(start)
                     /\ CopyAt(i).endChar = PyInt(end)
    /\ fixed_offset_count =
           Cardinality({i \in Processed : IndexInRange(ClaimAt(i)) /\ OffsetRepaired(i)})

\* a returned claim on a turn of two characters with endChar 0 and no
\* startChar: both offsets of the copy are 0 and nothing counts as fixed
C23_Witness ==
    /\ pc = "done"
    /\ Len(per_field_raw) = 1
    /\ IndexInRange(ClaimAt(1))
    /\ Len(ClaimedText(ClaimAt(1))) = 2
    /\ ClaimAt(1).startChar.t = "absent"
    /\ ClaimAt(1).endChar = PyInt(0)
    /\ sanitized_trace.perField[1].startChar = PyInt(0)
    /\ sanitized_trace.perField[1].endChar = PyInt(0)
    /\ sanitize_report.fixedOffsetCount = 0

----------------------------------------------------------------------------
\* the reports of a returned report whose reason is r
WithReason(r) ==
    {i \in 1..Len(sanitize_report.perField) : sanitize_report.perField[i].reason = r}

\* C27: in every returned report, invalidEvidenceCount is the number of field
\* reports with reason invalid_turnIndex and fixedOffsetCount the number with
\* reason offset_fixed, so their sum is at most the number of claims.
C27_CountsMatchReasons ==
    pc = "done" =>
        /\ sanitize_report.invalidEvidenceCount = Cardinality(WithReason("invalid_turnIndex"))
        /\ sanitize_report.fixedOffsetCount = Cardinality(WithReason("offset_fixed"))
        /\ sanitize_report.invalidEvidenceCount + sanitize_report.fixedOffsetCount
               <= Len(per_field_raw)

\* a returned report on two claims, one invalid and one repaired whose snippet
\* occurs in its turn
C27_Witness ==
    /\ pc = "done"
    /\ Len(per_field_raw) = 2
    /\ sanitize_report.invalidEvidenceCount = 1
    /\ sanitize_report.fixedOffsetCount = 1
    /\ \E i \in 1..2 :
           /\ sanitize_report.perField[i].reason = "offset_fixed"
           /\ sanitize_report.perField[i].matchedBy = "snippet"

\* C28: in every field report, reason ok comes with matchedBy snippet or
\* value, snippet_not_found with value or none, value_not_found with none,
\* invalid_turnIndex with none and an empty turnTextPreview, and matchedBy
\* snippet with reason ok or offset_fixed.
C28_ReasonMatchedByConsistent ==
    \A i \in Processed :
        LET r == ReportAt(i)
        IN /\ r.reason = "ok" => r.matchedBy \in {"snippet", "value"}
           /\ r.reason = "snippet_not_found" => r.matchedBy \in {"value", "none"}
           /\ r.reason = "value_not_found" => r.matchedBy = "none"
           /\ r.reason = "invalid_turnIndex" =>
                  (r.matchedBy = "none" /\ r.turnTextPreview = <<>>)
           /\ r.matchedBy = "snippet" => r.reason \in {"ok", "offset_fixed"}

\* a report with reason snippet_not_found and matchedBy value
C28_Witness ==
    /\ pc = "done"
    /\ Len(sanitize_report.perField) = 1
    /\ sanitize_report.perField[1].reason = "snippet_not_found"
    /\ sanitize_report.perField[1].matchedBy = "value"

----------------------------------------------------------------------------
\* Vocabulary of the rendering property

\* the lines of a text: the stretches between its line breaks
SplitLines(text) ==
    LET IsBreak(j) == text[j] = "\n"
        breaks == <<0>> \o SelectSeq([j \in 1..Len(text) |-> j], IsBreak)
                      \o <<Len(text) + 1>>
    IN [n \in 1..(Len(breaks) - 1) |-> SubSeq(text, breaks[n] + 1, breaks[n + 1] - 1)]

\* the labelled previews of a field report that are not empty, in the order
\* turn text, snippet, value
ShownPreviews(r) ==
    LET all == <<TurnTextPreviewLabel \o r.turnTextPreview,
                 SnippetPreviewLabel \o r.snippetPreview,
                 ValuePreviewLabel \o r.valuePreview>>
        shown == <<r.turnTextPreview # <<>>, r.snippetPreview # <<>>, r.valuePreview # <<>>>>
        IsShown(j) == shown[j]
        kept == SelectSeq(<<1, 2, 3>>, IsShown)
    IN [m \in 1..Len(kept) |-> all[kept[m]]]

\* C24: the text has first the invalidEvidenceCount line, then the
\* fixedOffsetCount line, then one block per field report in the order of
\* perField: a header line with field, turnIndex, reason and matchedBy, then
\* one line for each non-empty preview in the order turn text, snippet, value,
\* and nothing else.
C24_RenderedReport ==
    pc = "formatted" =>
        LET lines == SplitLines(rendered)
            rpt == sanitize_report.perField
            n == Len(rpt)
            first[i \in 1..(n + 1)] ==
                IF i = 1 THEN 3 ELSE first[i - 1] + 1 + Len(ShownPreviews(rpt[i - 1]))
        IN /\ Len(lines) = first[n + 1] - 1
           /\ lines[1] = InvalidCountLabel \o IntStr(sanitize_report.invalidEvidenceCount)
           /\ lines[2] = FixedCountLabel \o IntStr(sanitize_report.fixedOffsetCount)
           /\ \A i \in 1..n :
                  /\ lines[first[i]] = FieldHeader(rpt[i])
                  /\ \A m \in 1..Len(ShownPreviews(rpt[i])) :
                         lines[first[i] + m] = ShownPreviews(rpt[i])[m]

\* the text of a report on two claims, the first with no preview at all, the
\* second with all three: seven lines
C24_Witness ==
    /\ pc = "formatted"
    /\ Len(sanitize_report.perField) = 2
    /\ Len(ShownPreviews(sanitize_report.perField[1])) = 0
    /\ Len(ShownPreviews(sanitize_report.perField[2])) = 3
    /\ Len(SplitLines(rendered)) = 7

----------------------------------------------------------------------------
\* C29: for a bundle made of the sanitizer's trace and report of the same
\* claims, the missing-field count is at most the number of claims, and it is
\* 0 when every claim has reason ok with matchedBy snippet or value.
C29_MissingCountsEachFieldOnce ==
    pc = "counted" =>
        /\ missing <= Len(per_field_raw)
        /\ (\A i \in 1..Len(sanitize_report.perField) :
                /\ sanitize_report.perField[i].reason = "ok"
                /\ sanitize_report.perField[i].matchedBy \in {"snippet", "value"})
               => missing = 0

----------------------------------------------------------------------------
\* The pinch game.  A step of the game is a frame that was shown, or the
\* failed grab that ends the loop; after a frame, game.key is the key that
\* was down on it and game.pinch_now, game.remaining, game.slashing and
\* game.hits are what the frame saw.

FrameShown == game.running /\ (game'.running \/ game'.key = "q")

Pressed(key) == FrameShown /\ game'.key = key

Positions(targets) == [idx \in 1..Len(targets) |-> targets[idx].position]

\* the frame completes a run of at least n frames that all have pinch_now = b
CompletesRun(b, n) == game'.pinch_now = b /\ game'.run >= n

\* C22: a frame on which 'r' is down restarts the round, whatever the state of
\* the round: the score is 0, the whole GAME_DURATION remains, the targets
\* are TARGET_COUNT new ones, the pinch state is OFF and both debounce
\* counters are 0, and the loop goes on; a frame on which 'q' is down ends
\* the loop.
C22_RestartAndQuit ==
    [][/\ Pressed("r") =>
            /\ game'.running
            /\ game'.score = 0
            /\ Remaining(game'.now, game'.start_time) = GAME_DURATION
            /\ game'.created = game.created + 1
            /\ game'.targets \in create_targets
            /\ ~game'.pinch_on
            /\ game'.hold_counter = 0
            /\ game'.release_counter = 0
       /\ Pressed("q") => ~game'.running]_vars

\* 'r' was pressed after the time was up, on a frame that had the pinch ON
C22_Witness ==
    /\ game.running
    /\ game.key = "r"
    /\ game.remaining = 0
    /\ game.pinch_now
    /\ game.run >= HOLD_FRAMES
    /\ game.created = 2

\* C25 as stated: the pinch state goes from OFF to ON only on a frame that
\* completes HOLD_FRAMES or more consecutive pinch frames and from ON to OFF
\* only on a frame that completes RELEASE_FRAMES or more consecutive
\* non-pinch frames, and the two counters are never both non-zero.
C25_DebounceOnly ==
    /\ [][/\ (~game.pinch_on /\ game'.pinch_on) => CompletesRun(TRUE, HOLD_FRAMES)
          /\ (game.pinch_on /\ ~game'.pinch_on) => CompletesRun(FALSE, RELEASE_FRAMES)]_vars
    /\ [](game.hold_counter = 0 \/ game.release_counter = 0)

\* C25 amended: as above, except that a frame on which 'r' is down also turns
\* the pinch state OFF.
C25_DebounceOrRestart ==
    /\ [][/\ (~game.pinch_on /\ game'.pinch_on) => CompletesRun(TRUE, HOLD_FRAMES)
          /\ (game.pinch_on /\ ~game'.pinch_on) =>
                CompletesRun(FALSE, RELEASE_FRAMES) \/ Pressed("r")]_vars
    /\ [](game.hold_counter = 0 \/ game.release_counter = 0)

\* the pinch was ON in this round (it scored) and RELEASE_FRAMES non-pinch
\* frames have turned it OFF
C25_Witness ==
    /\ game.running
    /\ game.score > 0
    /\ game.key = "none"
    /\ ~game.pinch_now
    /\ game.run = RELEASE_FRAMES
    /\ game.release_counter = RELEASE_FRAMES
    /\ ~game.pinch_on

\* C26 as stated: the score changes only on a frame where the pinch state is
\* ON and time remains, and then by SCORE_PER_HIT times the number of targets
\* hit; there are always TARGET_COUNT targets; once the remaining time is 0
\* it stays 0, and the score and every target position stay as they are, on
\* every frame until 'r' is pressed.
C26_ScoreOnlyByHits ==
    [][FrameShown =>
        /\ game'.score # game.score =>
            /\ game'.slashing
            /\ game'.score = game.score + SCORE_PER_HIT * game'.hits
        /\ Len(game'.targets) = TARGET_COUNT
        /\ (game.remaining = 0 /\ game.key # "r") => game'.remaining = 0
        /\ (game'.remaining = 0 /\ game'.key # "r") =>
            /\ game'.score = game.score
            /\ Positions(game'.targets) = Positions(game.targets)]_vars

\* C26 amended: the same, except that a frame on which 'r' is down sets the
\* score to 0, whatever the pinch state and the remaining time.
C26_ScoreByHitsOrRestart ==
    [][FrameShown =>
        /\ game'.key # "r" =>
            /\ game'.score = game.score + SCORE_PER_HIT * game'.hits
            /\ game'.hits > 0 => (game'.pinch_on /\ game'.remaining > 0)
        /\ game'.key = "r" => game'.score = 0
        /\ Len(game'.targets) = TARGET_COUNT
        /\ (game.remaining = 0 /\ game.key # "r") => game'.remaining = 0
        /\ (game'.remaining = 0 /\ game'.key # "r") =>
            /\ game'.score = game.score
            /\ Positions(game'.targets) = Positions(game.targets)]_vars

\* every target was hit on one frame, and the time is up with the pinch ON
C26_Witness ==
    /\ game.running
    /\ game.key = "none"
    /\ game.remaining = 0
    /\ game.pinch_on
    /\ game.score = SCORE_PER_HIT * TARGET_COUNT

----------------------------------------------------------------------------
\* The log viewer's server.  viewer.last is the answer sent last, a step
\* that takes a request advances viewer.clock.

GuardedRoutes == {"GET /api/dev/trace-bundle/download", "POST /dev/logs/api/note",
                  "POST /dev/logs/api/probe-plan"}

DevFlagsSet == viewer.env.NODE_ENV = "development" /\ viewer.env.DAL_LOG_UI = "true"

\* the requestId of the heading that line i of the notes file stands under
HeadingOf(lines, i) ==
    IF \E j \in 1..(i - 1) : lines[j].kind = "header"
    THEN lines[CHOOSE j \in 1..(i - 1) :
                /\ lines[j].kind = "header"
                /\ \A m \in (j + 1)..(i - 1) : lines[m].kind # "header"].id
    ELSE Missing

\* the note is in the notes file, under the heading of its requestId
NotePresent(note) ==
    \E i \in 1..Len(viewer.notes.lines) :
        /\ viewer.notes.lines[i].kind = "entry"
        /\ viewer.notes.lines[i].timestamp = note.timestamp
        /\ HeadingOf(viewer.notes.lines, i) = note.id

\* no thread is inside _append_note_for_request
NoSaveInProgress == \A h \in Handlers : viewer.handlers[h].pc = "idle"

\* C21: while NODE_ENV is not 'development' or DAL_LOG_UI is not 'true', no
\* step changes the notes file or the probe-plan review queue, and every
\* request on the note, probe-plan and bundle-download routes is answered
\* 404, whatever its body.
C21_DevOnlyGuard ==
    [][~DevFlagsSet =>
        /\ viewer'.notes = viewer.notes
        /\ viewer'.queue = viewer.queue
        /\ (viewer'.clock # viewer.clock /\ viewer'.last.request.route \in GuardedRoutes)
            => viewer'.last.status = NOT_FOUND]_vars

\* a well-formed note for an existing notes file was answered 404 with only
\* one of the two flags set
C21_Witness ==
    /\ viewer.env.NODE_ENV = "development"
    /\ viewer.env.DAL_LOG_UI # "true"
    /\ viewer.notes.exists
    /\ viewer.last.request = Request("POST /dev/logs/api/note", TRUE, "a", "n")
    /\ viewer.last.status = NOT_FOUND

\* C30: once the notes posted have been answered, every note that was
\* answered as saved, and every note saved before, is in the notes file under
\* the heading of its requestId, whatever the interleaving of the threads.
C30_NoNoteLost ==
    NoSaveInProgress => \A note \in viewer.saved : NotePresent(note)

====
